---- MODULE Spec2Model ----
(***************************************************************************)
(* The ticket-analysis pipeline of API/agents/workflow_manager.py:         *)
(* WorkflowManager.analyze_ticket drives the compiled graph                *)
(* classify -> (prioritize) -> recommend -> qa_reviewer -> END and falls   *)
(* back to _fallback_analysis; the nodes log to AgentPerformanceTracker;   *)
(* the response goes through ResponseFormatter.format_complete_response.   *)
(*                                                                         *)
(* Encoding.  A Python dict is a record; dict.get is Get.  None is the     *)
(* record None.  A float with two decimals is the integer of its           *)
(* hundredths (0.75 is 75).  A string built by an f-string is the sequence *)
(* of its parts.  A lower-cased ticket text is the set of the words in it, *)
(* and `k in tl` is Has.  A uuid4 is the next unused integer.              *)
(***************************************************************************)
EXTENDS Integers, Sequences, FiniteSets, TLC

VARIABLES
    initialized,          \* WorkflowManager.initialized
    langgraph_available,  \* WorkflowManager.langgraph_available
    app,                  \* WorkflowManager.app is a compiled graph
    state_by_ref,         \* the graph runtime hands handlers the live state
    pc,                   \* position of the analyze_ticket call
    ticket,               \* arguments of the analyze_ticket call
    state,                \* the TicketState of the graph run
    result,               \* value returned by analyze_ticket
    predictions,          \* AgentPerformanceTracker.predictions
    metrics,              \* AgentPerformanceTracker.metrics
    retrieval_calls,      \* calls made to the KnowledgeService, in order
    classifier_answer,    \* what classify_text answered to the classify node
    next_uuid,            \* uuid.uuid4() source
    trace,                \* operations executed so far, in order
    runs,                 \* the concurrent analyze_ticket calls, by caller
    checkpoints,          \* MemorySaver: the state of each thread_id
    bulk                  \* the process_bulk_tickets call

vars == <<initialized, langgraph_available, app, state_by_ref, pc, ticket,
          state, result, predictions, metrics, retrieval_calls,
          classifier_answer, next_uuid, trace, runs, checkpoints, bulk>>

(***************************************************************************)
(* Bounds                                                                  *)
(***************************************************************************)
MaxWords == 1
MaxHits == 1
MaxCalls == 3

(***************************************************************************)
(* Python values                                                           *)
(***************************************************************************)
None == [none |-> TRUE]

IsNone(v) == "none" \in DOMAIN v

\* the empty dict {}
EmptyDict == << >>

Get(d, k, default) == IF k \in DOMAIN d THEN d[k] ELSE default

\* a value that is not a number (None, a string): formatting it with
\* {confidence:.2f} raises
NotANumber == -1

\* a department value that is not a string: .lower() on it raises
NonTextDepartment == "<non-text>"

(***************************************************************************)
(* Program constants, in hundredths where the source has a float           *)
(***************************************************************************)
SimpleLengthLimit == 100
SkipConfidence == 95
QaThreshold == 75
ConfidenceThreshold == 70
ClassificationWeight == 30
PriorityWeight == 30
SolutionWeight == 40
PartialSolutionWeight == 20
PriorityConfidence == 70
ErrorConfidence == 50
DefaultClsConfidence == 70
HeuristicSimilarity == 35
LowConfidenceFloor == 40
DefaultHitScore == 30
FallbackClsConfidence == 70
FallbackPriorityConfidence == 80
FallbackQualityScore == 70

(***************************************************************************)
(* Ticket texts                                                            *)
(***************************************************************************)
Vocab == {"iphone", "printer", "outlook", "ransomware", "payroll", "request"}

\* the keywords of the source's keyword lists that occur in a word
Substrings(w) ==
    CASE w = "iphone" -> {"iphone", "phone"}
      [] w = "printer" -> {"printer", "print"}
      [] w = "security breach" -> {"security breach", "security", "breach"}
      [] OTHER -> {w}

\* any(k in tl for k in ks)
Has(tl, ks) == \E w \in tl : Substrings(w) \cap ks # {}

Texts == {ws \in SUBSET Vocab : Cardinality(ws) <= MaxWords}

TicketLengths == {99, 100}

RequesterInfos ==
    {None, [department |-> "Finance"], [department |-> NonTextDepartment]}

Tickets ==
    {[words |-> ws, length |-> n, requester_info |-> rq] :
        ws \in Texts, n \in TicketLengths, rq \in RequesterInfos}

\* texts and requesters for the two priority heuristics
PriorityVocab ==
    {"ransomware", "security breach", "payroll", "intermittent", "degraded",
     "compliance", "urgent", "request"}

PriorityRequesterInfos ==
    {None, [department |-> "Finance"], [department |-> "HR"],
     [department |-> "Legal"], [department |-> "Engineering"],
     [department |-> NonTextDepartment]}

PriorityTickets ==
    {[words |-> ws, length |-> 100, requester_info |-> rq] :
        ws \in {x \in SUBSET PriorityVocab : Cardinality(x) <= MaxWords},
        rq \in PriorityRequesterInfos}

\* str.lower() on a department or on a predicted or actual value
Lower(s) ==
    CASE s = "Finance" -> "finance"
      [] s = "High" -> "high"
      [] s = "Low" -> "low"
      [] s = "Executive" -> "executive"
      [] s = "HR" -> "hr"
      [] s = "Legal" -> "legal"
      [] s = "Engineering" -> "engineering"
      [] OTHER -> s

(***************************************************************************)
(* The Classifier capability: ModelService.classify_text                   *)
(***************************************************************************)
ClsCategories ==
    {"Email Issues", "Network Issues", "Hardware Failures",
     "Software Problems", "Account Access", "General Support",
     "Database Issues"}

ClsConfidences == {70, 71, 95, 96}

ClassifierDicts ==
    {[category |-> c, confidence |-> k, reasoning |-> <<"model reasoning">>] :
        c \in ClsCategories, k \in ClsConfidences}
    \cup {[confidence |-> 96]}
    \cup {[category |-> "Email Issues"]}
    \cup {[category |-> "Hardware Failures", confidence |-> NotANumber]}

ClassifierOutcomes ==
    {[kind |-> "raise", error |-> "classifier unavailable"],
     [kind |-> "return", value |-> None]}
    \cup {[kind |-> "return", value |-> d] : d \in ClassifierDicts}

(***************************************************************************)
(* AgentPerformanceTracker                                                 *)
(***************************************************************************)
\* a tracker that keeps one record per agent: the new record replaces the
\* agent's earlier one, whichever ticket that was for
log_agent_prediction_OnePerAgent(preds, agent, ticket_id, predicted, confidence) ==
    LET OfOtherAgent(p) == p.agent # agent
    IN  [predictions |-> Append(SelectSeq(preds, OfOtherAgent),
                                [agent |-> agent, ticket_id |-> ticket_id,
                                 predicted |-> predicted,
                                 confidence |-> confidence]),
         raised |-> confidence = NotANumber,
         error |-> "unsupported format string"]

\* log_agent_prediction appends the record, then formats the confidence for
\* the log line; the formatting raises when the confidence is not a number
log_agent_prediction(preds, agent, ticket_id, predicted, confidence) ==
    [predictions |-> Append(preds, [agent |-> agent, ticket_id |-> ticket_id,
                                    predicted |-> predicted,
                                    confidence |-> confidence]),
     raised |-> confidence = NotANumber,
     error |-> "unsupported format string"]

\* log_agent_feedback that moves the record it updates to the end of the log
log_agent_feedback_MovesRecord(preds, mets, ticket_id, agent, actual) ==
    LET matching == {i \in 1..Len(preds) :
                        /\ preds[i].ticket_id = ticket_id
                        /\ preds[i].agent = agent}
    IN  IF matching = {} THEN [predictions |-> preds, metrics |-> mets]
        ELSE
        LET i == CHOOSE j \in matching : \A k \in matching : j <= k
            is_correct == Lower(preds[i].predicted) = Lower(actual)
            old == IF agent \in DOMAIN mets THEN mets[agent]
                   ELSE [total |-> 0, correct |-> 0, accuracy |-> 0,
                         avg_confidence |-> 0]
            total == old.total + 1
            correct == old.correct + (IF is_correct THEN 1 ELSE 0)
            updated == [actual |-> actual, feedback_source |-> "user",
                        correct |-> is_correct] @@ preds[i]
        IN  [predictions |->
                Append(SubSeq(preds, 1, i - 1) \o SubSeq(preds, i + 1, Len(preds)),
                       updated),
             metrics |->
                [a \in DOMAIN mets \cup {agent} |->
                    IF a = agent
                    THEN [total |-> total, correct |-> correct,
                          accuracy |-> (correct * 100) \div total,
                          avg_confidence |-> old.avg_confidence]
                    ELSE mets[a]]]

\* log_agent_feedback: the first prediction of the log with the ticket_id
\* and the agent gets actual, feedback_source and correct, and the agent's
\* aggregate counts it; without such a prediction nothing changes.
\* accuracy is correct / total in hundredths.
log_agent_feedback(preds, mets, ticket_id, agent, actual) ==
    LET matching == {i \in 1..Len(preds) :
                        /\ preds[i].ticket_id = ticket_id
                        /\ preds[i].agent = agent}
    IN  IF matching = {} THEN [predictions |-> preds, metrics |-> mets]
        ELSE
        LET i == CHOOSE j \in matching : \A k \in matching : j <= k
            is_correct == Lower(preds[i].predicted) = Lower(actual)
            old == IF agent \in DOMAIN mets THEN mets[agent]
                   ELSE [total |-> 0, correct |-> 0, accuracy |-> 0,
                         avg_confidence |-> 0]
            total == old.total + 1
            correct == old.correct + (IF is_correct THEN 1 ELSE 0)
            updated == [actual |-> actual, feedback_source |-> "user",
                        correct |-> is_correct] @@ preds[i]
        IN  [predictions |-> [preds EXCEPT ![i] = updated],
             metrics |->
                [a \in DOMAIN mets \cup {agent} |->
                    IF a = agent
                    THEN [total |-> total, correct |-> correct,
                          accuracy |-> (correct * 100) \div total,
                          avg_confidence |-> old.avg_confidence]
                    ELSE mets[a]]]

\* arguments of the tracker's operations
TrackerAgents == {"classifier", "priority_predictor"}

TrackerTicketIds == {1, 2}

TrackerPredicted == {"High"}

TrackerConfidences == {PriorityConfidence, NotANumber}

TrackerActuals == {"high", "Low"}

(***************************************************************************)
(* The graph runtime: TicketState channels                                 *)
(***************************************************************************)
\* keys declared Annotated[List, add]
Reduced == {"agent_metrics", "processing_steps"}

\* a merge without the `add` reducers: every returned key overwrites
ApplyUpdate_Overwrite(st, ret) ==
    [k \in DOMAIN st |-> IF k \in DOMAIN ret THEN ret[k] ELSE st[k]]

\* a node's returned dict is merged into the state: `add` on the annotated
\* lists, overwrite on the other keys, keys outside TicketState dropped
ApplyUpdate(st, ret) ==
    [k \in DOMAIN st |->
        IF k \in DOMAIN ret
        THEN IF k \in Reduced THEN st[k] \o ret[k] ELSE ret[k]
        ELSE st[k]]

\* an assignment state[k] = v made inside a node or a router reaches the
\* run's state only when the runtime passed the live state
InPlace(st, writes) ==
    IF state_by_ref
    THEN [k \in DOMAIN st |-> IF k \in DOMAIN writes THEN writes[k] ELSE st[k]]
    ELSE st

\* state["processing_steps"].append(step) inside a router
InPlaceAppend(st, steps) ==
    IF state_by_ref
    THEN [st EXCEPT !.processing_steps = @ \o steps]
    ELSE st

(***************************************************************************)
(* Classification stage                                                    *)
(***************************************************************************)
_select_model_for_ticket(length) ==
    IF length < SimpleLengthLimit THEN "fast_model" ELSE "standard_model"

\* the subcategory mapping of _classify_node
ResolveSubcategory(category, tl) ==
    CASE category = "Email Issues" ->
            IF Has(tl, {"iphone", "ios", "android", "mobile", "phone", "tablet"})
            THEN "Mobile Email Sync"
            ELSE IF Has(tl, {"outlook", "client", "application"}) THEN "Outlook"
            ELSE IF Has(tl, {"smtp", "send", "receive", "imap", "pop", "sync"})
            THEN "SMTP/IMAP"
            ELSE IF Has(tl, {"calendar", "meeting", "appointment"})
            THEN "Calendar"
            ELSE "Email General"
      [] category = "Network Issues" ->
            IF Has(tl, {"wifi", "wireless"}) THEN "WiFi"
            ELSE IF Has(tl, {"vpn", "remote"}) THEN "VPN"
            ELSE IF Has(tl, {"internet", "web"}) THEN "Internet"
            ELSE IF Has(tl, {"lan", "ethernet", "cable"}) THEN "LAN"
            ELSE "Connectivity"
      [] category = "Hardware Failures" ->
            IF Has(tl, {"desktop", "pc", "computer"}) THEN "Desktop"
            ELSE IF Has(tl, {"laptop", "notebook"}) THEN "Laptop"
            ELSE IF Has(tl, {"printer", "print"}) THEN "Printer"
            ELSE IF Has(tl, {"mobile", "phone", "iphone", "android"})
            THEN "Mobile Device"
            ELSE IF Has(tl, {"mouse", "keyboard", "monitor", "peripheral"})
            THEN "Peripherals"
            ELSE "Hardware General"
      [] category = "Software Problems" ->
            IF Has(tl, {"install", "installation"}) THEN "Installation"
            ELSE IF Has(tl, {"update", "upgrade", "patch"}) THEN "Update"
            ELSE IF Has(tl, {"error", "crash", "exception"})
            THEN "Application Error"
            ELSE IF Has(tl, {"windows", "linux", "macos", "os"})
            THEN "OS Problem"
            ELSE "Software General"
      [] category \in {"Access & Permissions", "Account Access"} ->
            IF Has(tl, {"login", "sign in", "logon"}) THEN "Login"
            ELSE IF Has(tl, {"password", "reset", "forgot"}) THEN "Password"
            ELSE IF Has(tl, {"account", "user", "access"}) THEN "Account Access"
            ELSE IF Has(tl, {"permission", "denied", "unauthorized"})
            THEN "File Permissions"
            ELSE "Access General"
      [] category = "General Support" ->
            IF Has(tl, {"how to", "how do", "tutorial", "guide"}) THEN "How-To"
            ELSE IF Has(tl, {"request", "need", "want"}) THEN "Request"
            ELSE "Other"
      [] OTHER -> "Other"

\* an except branch that answers like the resolver's default branch
ClassifyError_AsDefault(e) ==
    [classification |->
        [category |-> "General Support", subcategory |-> "Other",
         confidence |-> DefaultClsConfidence, reasoning |-> <<"Error: ", e>>],
     processing_steps |-> <<"classification_error">>]

\* the except branch of _classify_node
ClassifyError(e) ==
    [classification |->
        [category |-> "General Support", subcategory |-> "Needs Review",
         confidence |-> ErrorConfidence, reasoning |-> <<"Error: ", e>>],
     processing_steps |-> <<"classification_error">>]

\* _classify_node(state) with the classifier answering cls: the dict the
\* node returns, its in-place writes to state, and the tracker's log
_classify_node(st, cls, preds) ==
    LET length == st.text.length
        model == _select_model_for_ticket(length)
        writes == [ticket_length |-> length,
                   is_simple |-> length < SimpleLengthLimit,
                   selected_model |-> model]
    IN  IF cls.kind = "raise"
        THEN [ret |-> ClassifyError(cls.error), writes |-> writes,
              predictions |-> preds]
        ELSE IF IsNone(cls.value)
        THEN [ret |-> ClassifyError("'NoneType' object has no attribute 'get'"),
              writes |-> writes, predictions |-> preds]
        ELSE
        LET category == Get(cls.value, "category", "General Support")
            subcategory == ResolveSubcategory(category, st.text.words)
            classification ==
                [category |-> category, subcategory |-> subcategory,
                 confidence |-> Get(cls.value, "confidence", DefaultClsConfidence),
                 reasoning |->
                    Get(cls.value, "reasoning",
                        <<"Classified as ", category, "/", subcategory,
                          " based on keyword analysis">>)]
            logged == log_agent_prediction(preds, "classifier", st.ticket_id,
                                           classification.category,
                                           classification.confidence)
        IN  IF logged.raised
            THEN [ret |-> ClassifyError(logged.error), writes |-> writes,
                  predictions |-> logged.predictions]
            ELSE [ret |->
                    [classification |-> classification,
                     agent_metrics |->
                        <<[agent |-> "classifier", model_used |-> model]>>,
                     processing_steps |-> <<"classification_completed">>],
                  writes |-> writes,
                  predictions |-> logged.predictions]

\* a skip branch wired to END, past the recommend and qa_reviewer nodes
should_skip_priority_ToEnd(st) ==
    LET classification == st.classification
        confidence == Get(classification, "confidence", 0)
    IN  IF confidence > SkipConfidence /\ st.is_simple
        THEN [next |-> "respond",
              state |-> InPlaceAppend(InPlace(st, [skip_priority |-> TRUE]),
                                      <<"skipped_priority_due_to_confidence">>)]
        ELSE [next |-> "prioritize", state |-> st]

\* the conditional edge after classify: the next node, and the state after
\* the router's in-place writes
should_skip_priority(st) ==
    LET classification == st.classification
        confidence == Get(classification, "confidence", 0)
    IN  IF confidence > SkipConfidence /\ st.is_simple
        THEN [next |-> "recommend",
              state |-> InPlaceAppend(InPlace(st, [skip_priority |-> TRUE]),
                                      <<"skipped_priority_due_to_confidence">>)]
        ELSE [next |-> "prioritize", state |-> st]

(***************************************************************************)
(* Priority stage                                                          *)
(***************************************************************************)
\* the keyword rules with the finance/executive rule tested first
PriorityRule_DepartmentFirst(tl, dept) ==
    IF Has(tl, {"payroll", "finance", "vip", "executive", "ceo", "director"})
            \/ dept \in {"finance", "executive"}
    THEN [priority |-> "High", estimated_resolution_hours |-> 8,
          factors |-> <<"High-impact user or system">>]
    ELSE IF Has(tl, {"down", "outage", "not reachable", "cannot connect",
                     "security breach", "data loss", "ransomware"})
    THEN [priority |-> "Critical", estimated_resolution_hours |-> 2,
          factors |-> <<"Service outage or security incident">>]
    ELSE IF Has(tl, {"slow", "performance", "minor", "workaround", "intermittent"})
    THEN [priority |-> "Medium", estimated_resolution_hours |-> 24,
          factors |-> <<"Workaround available or minor impact">>]
    ELSE [priority |-> "Low", estimated_resolution_hours |-> 72,
          factors |-> <<"General inquiry or cosmetic issue">>]

\* the keyword rules of _prioritize_node, first match wins
PriorityRule(tl, dept) ==
    IF Has(tl, {"down", "outage", "not reachable", "cannot connect",
                "security breach", "data loss", "ransomware"})
    THEN [priority |-> "Critical", estimated_resolution_hours |-> 2,
          factors |-> <<"Service outage or security incident">>]
    ELSE IF Has(tl, {"payroll", "finance", "vip", "executive", "ceo", "director"})
            \/ dept \in {"finance", "executive"}
    THEN [priority |-> "High", estimated_resolution_hours |-> 8,
          factors |-> <<"High-impact user or system">>]
    ELSE IF Has(tl, {"slow", "performance", "minor", "workaround", "intermittent"})
    THEN [priority |-> "Medium", estimated_resolution_hours |-> 24,
          factors |-> <<"Workaround available or minor impact">>]
    ELSE [priority |-> "Low", estimated_resolution_hours |-> 72,
          factors |-> <<"General inquiry or cosmetic issue">>]

\* the except branch of _prioritize_node
PriorityError(e) ==
    [priority_prediction |->
        [priority |-> "Medium", confidence |-> ErrorConfidence,
         estimated_resolution_hours |-> 24, factors |-> <<<<"Error: ", e>>>>],
     processing_steps |-> <<"priority_error">>]

\* a Priority stage that reports the confidence of predict_priority
_prioritize_node_Confident(st, preds) ==
    LET req == IF IsNone(st.requester_info) THEN EmptyDict
               ELSE st.requester_info
        department == Get(req, "department", "")
    IN  IF department = NonTextDepartment
        THEN [ret |-> PriorityError("object has no attribute 'lower'"),
              predictions |-> preds]
        ELSE
        LET rule == PriorityRule(st.text.words, Lower(department))
            priority == [priority |-> rule.priority,
                         estimated_resolution_hours |->
                            rule.estimated_resolution_hours,
                         confidence |-> 85,
                         factors |-> rule.factors]
            logged == log_agent_prediction(preds, "priority_predictor",
                                           st.ticket_id, priority.priority,
                                           priority.confidence)
        IN  [ret |->
                [priority_prediction |-> priority,
                 agent_metrics |-> <<[agent |-> "priority_predictor"]>>,
                 processing_steps |-> <<"priority_prediction_completed">>],
             predictions |-> logged.predictions]

_prioritize_node(st, preds) ==
    LET req == IF IsNone(st.requester_info) THEN EmptyDict
               ELSE st.requester_info
        department == Get(req, "department", "")
    IN  IF department = NonTextDepartment
        THEN [ret |-> PriorityError("object has no attribute 'lower'"),
              predictions |-> preds]
        ELSE
        LET rule == PriorityRule(st.text.words, Lower(department))
            priority == [priority |-> rule.priority,
                         estimated_resolution_hours |->
                            rule.estimated_resolution_hours,
                         confidence |-> PriorityConfidence,
                         factors |-> rule.factors]
            logged == log_agent_prediction(preds, "priority_predictor",
                                           st.ticket_id, priority.priority,
                                           priority.confidence)
        IN  IF logged.raised
            THEN [ret |-> PriorityError(logged.error),
                  predictions |-> logged.predictions]
            ELSE [ret |->
                    [priority_prediction |-> priority,
                     agent_metrics |-> <<[agent |-> "priority_predictor"]>>,
                     processing_steps |-> <<"priority_prediction_completed">>],
                  predictions |-> logged.predictions]

\* WorkflowManager.predict_priority: keyword tier, then the department
\* rules, then the security/compliance escalation; no try block, so
\* .lower() on a department that is not text raises to the caller.  A
\* missing or None department is "" (both fail `if department`).
predict_priority(tl, requester_info) ==
    LET department == IF IsNone(requester_info) THEN ""
                      ELSE Get(requester_info, "department", "")
        dep == Lower(department)
        keyword ==
            IF Has(tl, {"urgent", "immediately", "critical", "down",
                        "cannot access", "outage", "emergency",
                        "security breach", "data loss", "system failure"})
            THEN [priority |-> "High",
                  reason |-> <<"Contains urgent/critical keywords">>]
            ELSE IF Has(tl, {"slow", "delay", "performance", "degraded",
                             "intermittent", "partial"})
            THEN [priority |-> "Medium",
                  reason |-> <<"Performance or degraded service keywords">>]
            ELSE IF Has(tl, {"question", "how to", "help", "request",
                             "feature", "suggestion", "info"})
            THEN [priority |-> "Low",
                  reason |-> <<"Informational or request keywords">>]
            ELSE [priority |-> "Medium",
                  reason |->
                    <<"No strong priority keywords found; defaulted to Medium">>]
        byDepartment ==
            IF department = "" THEN keyword
            ELSE IF dep \in {"executive", "leadership", "finance", "c-level",
                             "ceo", "cfo", "cio"}
                    /\ keyword.priority # "High"
            THEN [priority |-> "High",
                  reason |-> Append(keyword.reason,
                                    <<"Escalated due to department: ",
                                      department>>)]
            ELSE IF dep \in {"hr", "legal"} /\ keyword.priority = "Low"
            THEN [priority |-> "Medium",
                  reason |-> Append(keyword.reason,
                                    <<"Raised to Medium due to department: ",
                                      department>>)]
            ELSE keyword
        final ==
            IF Has(tl, {"security", "breach", "compliance"})
               /\ byDepartment.priority # "High"
            THEN [priority |-> "High",
                  reason |->
                    Append(byDepartment.reason,
                           "Security/compliance context triggers High priority")]
            ELSE byDepartment
    IN  IF department = NonTextDepartment
        THEN [raised |-> TRUE, error |-> "object has no attribute 'lower'"]
        ELSE [raised |-> FALSE,
              value |->
                [priority |-> final.priority,
                 confidence |-> IF final.priority = "High" THEN 85 ELSE 80,
                 estimated_resolution_hours |->
                    CASE final.priority = "High" -> 8
                      [] final.priority = "Medium" -> 24
                      [] final.priority = "Low" -> 72
                      [] OTHER -> 24,
                 factors |-> final.reason]]

(***************************************************************************)
(* The Retrieval capability: KnowledgeService.get_recommendations, .search *)
(***************************************************************************)
\* lists of at most MaxHits elements of S
ListsOf(S) == UNION {[1..n -> S] : n \in 0..MaxHits}

\* dicts returned by get_recommendations
Recommendations ==
    {[solution_id |-> "doc-1", title |-> "Reset the mail profile",
      similarity_score |-> 80, source |-> "knowledge_base"],
     [solution_id |-> "doc-2", title |-> "Known issue",
      similarity_score |-> 66, source |-> "heuristic"]}

\* dicts returned by search
SearchHits ==
    {[doc_id |-> "doc-3", title |-> "Older case", score |-> 35,
      source |-> "kaggle"],
     [content_snippet |-> "1. restart"]}

\* an answer of the capability: it raises, returns None, returns a list
\* whose elements are not dicts, or returns a list of dicts
RetrievalOutcomes(S) ==
    {[kind |-> "raise", error |-> "retrieval unavailable"],
     [kind |-> "none"], [kind |-> "junk"]}
    \cup {[kind |-> "list", items |-> l] : l \in ListsOf(S)}

(***************************************************************************)
(* Solution recommendation stage                                           *)
(***************************************************************************)
\* cat = (category or "").lower(); the words tested with `in cat`
CategoryWords(category) ==
    CASE category = "Email Issues" -> {"email"}
      [] category = "Network Issues" -> {"network"}
      [] category = "Hardware Failures" -> {"hardware"}
      [] category = "Software Problems" -> {"software"}
      [] category = "Account Access" -> {"access"}
      [] OTHER -> {}

\* the deterministic domain-specific steps: title and estimated minutes
Runbook(category, tl) ==
    LET cat == CategoryWords(category)
    IN  IF "email" \in cat \/ Has(tl, {"email", "mail", "outlook", "exchange"})
        THEN IF Has(tl, {"iphone", "ios", "android", "mobile"})
             THEN [title |-> "Mobile Email Sync Troubleshooting", est_time |-> 10]
             ELSE [title |-> "Outlook/Email Client Troubleshooting",
                   est_time |-> 20]
        ELSE IF "network" \in cat
                \/ Has(tl, {"wifi", "vpn", "network", "internet", "connect"})
        THEN IF Has(tl, {"wifi", "wireless"})
             THEN [title |-> "WiFi Connection Troubleshooting", est_time |-> 15]
             ELSE IF Has(tl, {"vpn"})
             THEN [title |-> "VPN Connection Troubleshooting", est_time |-> 15]
             ELSE [title |-> "General Network Troubleshooting", est_time |-> 20]
        ELSE IF "hardware" \in cat
                \/ Has(tl, {"printer", "print", "laptop", "desktop", "monitor"})
        THEN IF Has(tl, {"printer", "print"})
             THEN [title |-> "Printer Troubleshooting", est_time |-> 15]
             ELSE [title |-> "Hardware Troubleshooting", est_time |-> 20]
        ELSE IF "software" \in cat
                \/ Has(tl, {"application", "app", "program", "software", "install"})
        THEN [title |-> "Software/Application Troubleshooting", est_time |-> 20]
        ELSE IF "access" \in cat \/ "login" \in cat
                \/ Has(tl, {"login", "password", "access", "account", "locked"})
        THEN [title |-> "Account Access Troubleshooting", est_time |-> 10]
        ELSE [title |-> "General IT Support Steps", est_time |-> 15]

\* f"kb_{i}", the id given to a hit of the widened search without doc_id
KbId(i) ==
    CASE i = 0 -> "kb_0" [] i = 1 -> "kb_1" [] i = 2 -> "kb_2" [] i = 3 -> "kb_3"

\* the solution built from the i-th result of the widened search
FromSearchHit(r, i) ==
    [solution_id |-> Get(r, "doc_id", KbId(i - 1)),
     title |-> IF Get(r, "title", "") = "" THEN "Similar Case" ELSE r.title,
     similarity_score |-> Get(r, "score", DefaultHitScore),
     estimated_time_minutes |-> 15,
     source |-> Get(r, "source", "knowledge_base")]

\* an except branch that reports the stage as completed
RecommendError_Completed ==
    [recommended_solutions |-> << >>,
     summary |-> <<"No solution found.">>,
     low_confidence |-> TRUE,
     processing_steps |-> <<"solution_recommendation_completed">>]

\* the except branch of _recommend_node
RecommendError ==
    [recommended_solutions |-> << >>,
     summary |-> <<"No solution found.">>,
     low_confidence |-> TRUE,
     processing_steps |-> <<"recommendation_error">>]

\* the return of _recommend_node for the final list of solutions
RecommendReturn(solutions) ==
    [recommended_solutions |-> solutions,
     summary |-> [i \in 1..(IF Len(solutions) < 2 THEN Len(solutions) ELSE 2)
                    |-> solutions[i].title],
     low_confidence |->
        \A i \in 1..Len(solutions) :
            Get(solutions[i], "similarity_score", 0) < LowConfidenceFloor,
     agent_metrics |-> <<[agent |-> "solution_recommender",
                          kb_results_count |-> Len(solutions)]>>,
     processing_steps |-> <<"solution_recommendation_completed">>]

\* a stage that issues the widened search after every first search
RecommendCalls_AlwaysWiden(first) ==
    IF first.kind = "raise" THEN <<"get_recommendations">>
    ELSE <<"get_recommendations", "search">>

\* the calls _recommend_node makes to the KnowledgeService when
\* get_recommendations answers first: search follows under `not solutions`
RecommendCalls(first) ==
    IF first.kind = "none" \/ (first.kind = "list" /\ Len(first.items) = 0)
    THEN <<"get_recommendations", "search">>
    ELSE <<"get_recommendations">>

\* _recommend_node without the static runbook: two empty searches end in an
\* empty list
_recommend_node_NoRunbook(st, first, broader) ==
    CASE first.kind = "raise" -> RecommendError
      [] first.kind = "junk" -> RecommendError
      [] first.kind = "list" /\ Len(first.items) > 0 ->
            RecommendReturn(first.items)
      [] OTHER ->
            IF broader.kind # "list" THEN RecommendError
            ELSE IF Len(broader.items) > 0
            THEN IF first.kind = "none" THEN RecommendError
                 ELSE RecommendReturn(
                        [i \in 1..Len(broader.items) |->
                            FromSearchHit(broader.items[i], i)])
            ELSE RecommendReturn(<< >>)

\* _recommend_node(state) with get_recommendations answering first and, when
\* it is called, search answering broader
_recommend_node(st, first, broader) ==
    LET category == Get(st.classification, "category", "")
        runbook == Runbook(category, st.text.words)
        generic == <<[solution_id |-> "generic_1", title |-> runbook.title,
                      similarity_score |-> HeuristicSimilarity,
                      estimated_time_minutes |-> runbook.est_time,
                      source |-> "heuristic"]>>
    IN  CASE first.kind = "raise" -> RecommendError
          [] first.kind = "junk" -> RecommendError
          [] first.kind = "list" /\ Len(first.items) > 0 ->
                RecommendReturn(first.items)
          [] OTHER ->
                \* `not solutions`: the widened search is issued
                IF broader.kind # "list" THEN RecommendError
                ELSE IF Len(broader.items) > 0
                THEN IF first.kind = "none" THEN RecommendError
                     ELSE RecommendReturn(
                            [i \in 1..Len(broader.items) |->
                                FromSearchHit(broader.items[i], i)])
                ELSE RecommendReturn(generic)

(***************************************************************************)
(* Quality gate                                                            *)
(***************************************************************************)
\* a scoring that gives no partial credit when no solution is present
QualityScore_NoPartialCredit(classification, priority, solutions) ==
    (IF Get(classification, "confidence", 0) > ConfidenceThreshold
     THEN ClassificationWeight ELSE 0)
    + (IF ~IsNone(priority)
          /\ Get(priority, "confidence", 0) > ConfidenceThreshold
       THEN PriorityWeight ELSE 0)
    + (IF Len(solutions) >= 1 THEN SolutionWeight ELSE 0)

\* the scoring of _qa_review_node: quality_score after the three checks
QualityScore(classification, priority, solutions) ==
    (IF Get(classification, "confidence", 0) > ConfidenceThreshold
     THEN ClassificationWeight ELSE 0)
    + (IF ~IsNone(priority)
          /\ Get(priority, "confidence", 0) > ConfidenceThreshold
       THEN PriorityWeight ELSE 0)
    + (IF Len(solutions) >= 1 THEN SolutionWeight ELSE PartialSolutionWeight)

_qa_review_node(st) ==
    LET classification == st.classification
        priority == st.priority_prediction
        solutions == st.recommended_solutions
        cls_ok == Get(classification, "confidence", 0) > ConfidenceThreshold
        pri_ok == /\ ~IsNone(priority)
                  /\ Get(priority, "confidence", 0) > ConfidenceThreshold
        quality_score == QualityScore(classification, priority, solutions)
        issues ==
            (IF cls_ok THEN << >> ELSE <<"Low classification confidence">>)
            \o (IF pri_ok THEN << >>
                ELSE <<"Low priority prediction confidence">>)
            \o (IF Len(solutions) >= 1 THEN << >>
                ELSE <<"No solutions provided">>)
        improvements ==
            IF quality_score < QaThreshold
            THEN <<"Consider manual review of low-confidence predictions">>
                 \o (IF Len(solutions) < 2
                     THEN <<"Add more solution alternatives">> ELSE << >>)
            ELSE << >>
        qa_review ==
            [quality_score |-> quality_score,
             completeness |-> IF issues = << >> THEN <<"complete">>
                              ELSE <<"issues: ">> \o issues,
             improvements |-> improvements,
             status |-> IF quality_score >= QaThreshold THEN "approved"
                        ELSE "needs_revision"]
    IN  \* a confidence that is not a number cannot be compared with 0.7: the
        \* except branch answers
        IF Get(classification, "confidence", 0) = NotANumber
           \/ (~IsNone(priority)
               /\ Get(priority, "confidence", 0) = NotANumber)
        THEN [ret |-> [qa_review |->
                        [quality_score |-> ErrorConfidence, status |-> "error",
                         completeness |->
                            <<"Error: ", "'>' not supported between instances">>],
                       processing_steps |-> <<"qa_error">>],
              writes |-> EmptyDict]
        ELSE
        [ret |-> [qa_review |-> qa_review,
                  agent_metrics |-> <<[agent |-> "qa_reviewer",
                                       quality_score |-> quality_score]>>,
                  processing_steps |-> <<"qa_review_completed">>],
         writes |->
            IF quality_score < QaThreshold
            THEN [draft_analysis |->
                    [classification |-> classification,
                     priority_prediction |-> priority,
                     recommended_solutions |-> solutions,
                     qa_issues |-> issues],
                  review_url |-> [path |-> "/api/v1/review/",
                                 ticket_id |-> st.ticket_id]]
            ELSE EmptyDict]

\* the conditional edge after qa_reviewer: always END, and the state after
\* the router's in-place writes
qa_routing(st) ==
    LET qa == st.qa_review
        quality_score == Get(qa, "quality_score", 100)
    IN  IF quality_score < QaThreshold
        THEN [next |-> "END",
              state |-> InPlace(st, [needs_human_review |-> TRUE,
                                     status |-> "needs_review"])]
        ELSE [next |-> "END",
              state |-> InPlace(st, [status |-> "completed"])]

(***************************************************************************)
(* ResponseFormatter                                                       *)
(***************************************************************************)
\* add_confidence_warnings: the types of the warnings
add_confidence_warnings(res) ==
    LET solutions == res.recommended_solutions
        total == LET RECURSIVE Sum(_)
                     Sum(i) == IF i = 0 THEN 0
                               ELSE Get(solutions[i], "similarity_score", 0)
                                    + Sum(i - 1)
                 IN  Sum(Len(solutions))
    IN  (IF Get(res.classification, "confidence", 100) < 75
         THEN <<"low_classification_confidence">> ELSE << >>)
        \o (IF Get(res.priority_prediction, "confidence", 100) < 70
            THEN <<"low_priority_confidence">> ELSE << >>)
        \o (IF Len(solutions) > 0 /\ total < 60 * Len(solutions)
            THEN <<"low_solution_relevance">> ELSE << >>)

\* format_complete_response(res) for a dict res whose recommended_solutions
\* is a list of dicts: it raises on res["priority_prediction"] being None
\* (None has no .get), else returns res with the added keys
format_complete_response(res) ==
    IF IsNone(res.priority_prediction)
    THEN [raised |-> TRUE,
          error |-> "'NoneType' object has no attribute 'get'"]
    ELSE
    LET summary == <<Get(res.classification, "category", "Unknown"),
                     Get(res.priority_prediction, "priority", "Medium"),
                     Len(res.recommended_solutions)>>
        warnings == add_confidence_warnings(res)
        added == [summary |-> summary, format_version |-> "1.0"]
    IN  [raised |-> FALSE,
         value |-> IF Len(warnings) > 0
                   THEN [warnings |-> warnings] @@ added @@ res
                   ELSE added @@ res]

(***************************************************************************)
(* WorkflowManager.analyze_ticket and _fallback_analysis                   *)
(***************************************************************************)
\* initial_state of analyze_ticket; text stands for title and description,
\* which the nodes only read joined as f"{title} {description}"
InitialState(tk, ticket_id) ==
    [ticket_id |-> ticket_id,
     text |-> [words |-> tk.words, length |-> tk.length],
     requester_info |-> tk.requester_info,
     is_simple |-> FALSE,
     skip_priority |-> FALSE,
     ticket_length |-> 0,
     selected_model |-> "standard_model",
     classification |-> None,
     priority_prediction |-> None,
     recommended_solutions |-> None,
     qa_review |-> None,
     agent_metrics |-> << >>,
     processing_steps |-> << >>,
     status |-> "processing",
     needs_human_review |-> FALSE,
     draft_analysis |-> None,
     review_url |-> None]

\* the response analyze_ticket builds from the final state of the graph run,
\* before formatting
BuildResult(final_state) ==
    LET solutions == final_state.recommended_solutions
        kb == {i \in 1..Len(solutions) :
                    Get(solutions[i], "source", None) # "heuristic"}
        scores == {Get(solutions[i], "similarity_score", 0) :
                        i \in 1..Len(solutions)}
        base ==
            [ticket_id |-> final_state.ticket_id,
             classification |-> final_state.classification,
             priority_prediction |-> final_state.priority_prediction,
             recommended_solutions |-> final_state.recommended_solutions,
             qa_review |-> final_state.qa_review,
             analysis_metadata |->
                [workflow |-> "langgraph",
                 total_documents_retrieved |-> Cardinality(kb),
                 top_similarity_score |->
                    IF scores = {} THEN 0
                    ELSE CHOOSE m \in scores : \A x \in scores : x <= m,
                 agent_metrics |-> final_state.agent_metrics,
                 processing_steps |-> final_state.processing_steps,
                 model_used |-> final_state.selected_model]]
    IN  IF final_state.needs_human_review
        THEN [status |-> "needs_review",
              draft_analysis |-> final_state.draft_analysis,
              review_url |-> final_state.review_url] @@ base
        ELSE [status |-> "completed"] @@ base

\* the keyword scan of _fallback_analysis, in the dict's order
FallbackPriority(tl) ==
    IF Has(tl, {"server down", "system crash", "security breach"})
    THEN [priority |-> "Critical", eta_hours |-> 2]
    ELSE IF Has(tl, {"error", "not working", "urgent"})
    THEN [priority |-> "High", eta_hours |-> 8]
    ELSE IF Has(tl, {"issue", "problem", "help"})
    THEN [priority |-> "Medium", eta_hours |-> 24]
    ELSE IF Has(tl, {"question", "request", "how to"})
    THEN [priority |-> "Low", eta_hours |-> 72]
    ELSE [priority |-> "Medium", eta_hours |-> 24]

\* the try block of _fallback_analysis with get_recommendations answering ks
FallbackBody(tk, ks, ticket_id) ==
    LET priority == FallbackPriority(tk.words)
        res(solutions) ==
            [ticket_id |-> ticket_id,
             classification |->
                [category |-> "General Support", subcategory |-> "Unknown",
                 confidence |-> FallbackClsConfidence,
                 reasoning |-> <<"Fallback classification">>],
             priority_prediction |->
                [priority |-> priority.priority,
                 confidence |-> FallbackPriorityConfidence,
                 estimated_resolution_hours |-> priority.eta_hours,
                 factors |-> <<"Keyword-based analysis">>],
             recommended_solutions |-> solutions,
             qa_review |->
                [quality_score |-> FallbackQualityScore, status |-> "fallback",
                 completeness |-> <<"Basic analysis completed">>],
             analysis_metadata |->
                [method |-> "fallback", provider |-> "groq",
                 workflow |-> "direct"]]
    IN  CASE ks.kind = "raise" -> [raised |-> TRUE, error |-> ks.error]
          \* len(None) in the formatter
          [] ks.kind = "none" ->
                [raised |-> TRUE,
                 error |-> "object of type 'NoneType' has no len()"]
          \* solutions[0].get in the formatter
          [] ks.kind = "junk" ->
                [raised |-> TRUE, error |-> "'str' object has no attribute 'get'"]
          [] OTHER -> format_complete_response(res(ks.items))

\* _fallback_analysis without its except branch
_fallback_analysis_Uncaught(tk, ks, ticket_id) ==
    FallbackBody(tk, ks, ticket_id)

\* _fallback_analysis: the try block, and the dict of its except branch
_fallback_analysis(tk, ks, ticket_id) ==
    LET body == FallbackBody(tk, ks, ticket_id)
    IN  IF body.raised
        THEN [raised |-> FALSE,
              value |->
                [ticket_id |-> ticket_id,
                 classification |-> [category |-> "General Support",
                                     confidence |-> ErrorConfidence],
                 priority_prediction |-> [priority |-> "Medium",
                                          confidence |-> ErrorConfidence],
                 recommended_solutions |-> << >>,
                 analysis_metadata |-> [error |-> body.error]]]
        ELSE body

(***************************************************************************)
(* Initial state: a constructed WorkflowManager, no call made              *)
(***************************************************************************)
Init ==
    /\ initialized = FALSE
    /\ langgraph_available \in BOOLEAN
    /\ app = FALSE
    /\ state_by_ref \in BOOLEAN
    /\ pc = "idle"
    /\ ticket = None
    /\ state = None
    /\ result = None
    /\ predictions = << >>
    /\ metrics = EmptyDict
    /\ runs = << >>
    /\ checkpoints = << >>
    /\ bulk = None
    /\ retrieval_calls = << >>
    /\ classifier_answer = None
    /\ next_uuid = 1
    /\ trace = << >>

(***************************************************************************)
(* Actions                                                                 *)
(***************************************************************************)
\* WorkflowManager.initialize: without LangGraph it only sets initialized;
\* with it, it builds the graph, and a failing build leaves app unset
Initialize ==
    /\ pc = "idle"
    /\ ~initialized
    /\ initialized' = TRUE
    /\ IF langgraph_available
       THEN \E built \in BOOLEAN : app' = built
       ELSE app' = app
    /\ UNCHANGED <<runs, checkpoints, bulk,
                   metrics, retrieval_calls, langgraph_available,
                   state_by_ref, pc, ticket, state,
                   result, predictions, classifier_answer, next_uuid, trace>>

\* analyze_ticket is called: without a usable graph it goes to the
\* fallback, else it draws the ticket_id and the graph run starts
AnalyzeTicket ==
    /\ pc = "idle"
    /\ \E tk \in Tickets :
        /\ ticket' = tk
        /\ IF ~initialized \/ ~langgraph_available \/ ~app
           THEN /\ pc' = "fallback"
                /\ UNCHANGED <<state, next_uuid>>
           ELSE /\ pc' = "classify"
                /\ state' = InitialState(tk, next_uuid)
                /\ next_uuid' = next_uuid + 1
    /\ trace' = Append(trace, "analyze_ticket")
    /\ UNCHANGED <<runs, checkpoints, bulk,
                   metrics, retrieval_calls, initialized,
                   langgraph_available, app, state_by_ref,
                   result, predictions, classifier_answer>>

\* the classify node and its conditional edge
Classify ==
    /\ pc = "classify"
    /\ \E cls \in ClassifierOutcomes :
        LET out == _classify_node(state, cls, predictions)
            merged == ApplyUpdate(InPlace(state, out.writes), out.ret)
            route == should_skip_priority(merged)
        IN  /\ state' = route.state
            /\ pc' = route.next
            /\ predictions' = out.predictions
            /\ classifier_answer' = cls
    /\ trace' = Append(trace, "classify")
    /\ UNCHANGED <<runs, checkpoints, bulk,
                   metrics, retrieval_calls, initialized,
                   langgraph_available, app, state_by_ref,
                   ticket, result, next_uuid>>

\* the prioritize node; its edge leads to recommend
Prioritize ==
    /\ pc = "prioritize"
    /\ LET out == _prioritize_node(state, predictions)
       IN  /\ state' = ApplyUpdate(state, out.ret)
           /\ predictions' = out.predictions
    /\ pc' = "recommend"
    /\ trace' = Append(trace, "prioritize")
    /\ UNCHANGED <<runs, checkpoints, bulk,
                   metrics, retrieval_calls, initialized,
                   langgraph_available, app, state_by_ref,
                   ticket, result, classifier_answer, next_uuid>>

\* the recommend node; its edge leads to qa_reviewer
Recommend ==
    /\ pc = "recommend"
    /\ \E first \in RetrievalOutcomes(Recommendations),
          broader \in RetrievalOutcomes(SearchHits) :
        /\ state' = ApplyUpdate(state, _recommend_node(state, first, broader))
        /\ retrieval_calls' = retrieval_calls \o RecommendCalls(first)
    /\ pc' = "qa_reviewer"
    /\ trace' = Append(trace, "recommend")
    /\ UNCHANGED <<runs, checkpoints, bulk,
                   metrics, initialized,
                   langgraph_available, app, state_by_ref,
                   ticket, result, predictions, classifier_answer, next_uuid>>

\* the qa_reviewer node and its conditional edge to END: ainvoke returns
QAReview ==
    /\ pc = "qa_reviewer"
    /\ LET out == _qa_review_node(state)
           merged == ApplyUpdate(InPlace(state, out.writes), out.ret)
       IN  state' = qa_routing(merged).state
    /\ pc' = "respond"
    /\ trace' = Append(trace, "qa_reviewer")
    /\ UNCHANGED <<runs, checkpoints, bulk,
                   metrics, retrieval_calls, initialized,
                   langgraph_available, app, state_by_ref,
                   ticket, result, predictions, classifier_answer, next_uuid>>

\* self.app.ainvoke raises out of the graph run: analyze_ticket's except
\* branch takes over
AinvokeRaises ==
    /\ pc \in {"classify", "prioritize", "recommend", "qa_reviewer"}
    /\ pc' = "fallback"
    /\ UNCHANGED <<runs, checkpoints, bulk,
                   metrics, retrieval_calls, initialized,
                   langgraph_available, app, state_by_ref,
                   ticket, state, result, predictions, classifier_answer,
                   next_uuid, trace>>

\* analyze_ticket after ainvoke: the response is built and formatted; when
\* that raises, the except branch goes to the fallback
Respond ==
    /\ pc = "respond"
    /\ LET formatted == format_complete_response(BuildResult(state))
       IN  IF formatted.raised
           THEN pc' = "fallback" /\ result' = result
           ELSE pc' = "returned" /\ result' = formatted.value
    /\ UNCHANGED <<runs, checkpoints, bulk,
                   metrics, retrieval_calls, initialized,
                   langgraph_available, app, state_by_ref,
                   ticket, state, predictions, classifier_answer, next_uuid,
                   trace>>

\* _fallback_analysis runs, with its own ticket_id, and analyze_ticket
\* returns what it returns or raises what it raises
Fallback ==
    /\ pc = "fallback"
    /\ \E ks \in RetrievalOutcomes(Recommendations) :
        LET out == _fallback_analysis(ticket, ks, next_uuid)
        IN  IF out.raised
            THEN pc' = "raised" /\ result' = result
            ELSE pc' = "returned" /\ result' = out.value
    /\ retrieval_calls' = Append(retrieval_calls, "get_recommendations")
    /\ next_uuid' = next_uuid + 1
    /\ trace' = Append(trace, "_fallback_analysis")
    /\ UNCHANGED <<runs, checkpoints, bulk,
                   metrics, initialized,
                   langgraph_available, app, state_by_ref,
                   ticket, state, predictions, classifier_answer>>

Next ==
    \/ Initialize
    \/ AnalyzeTicket
    \/ Classify
    \/ Prioritize
    \/ Recommend
    \/ QAReview
    \/ AinvokeRaises
    \/ Respond
    \/ Fallback

Spec == Init /\ [][Next]_vars

(***************************************************************************)
(* The two priority heuristics on the same ticket: the Priority stage on   *)
(* the run's initial state, then the standalone predict_priority           *)
(***************************************************************************)
PriorityInit ==
    /\ initialized = TRUE
    /\ langgraph_available = TRUE
    /\ app = TRUE
    /\ state_by_ref \in BOOLEAN
    /\ pc = "prioritize"
    /\ ticket \in PriorityTickets
    /\ state = InitialState(ticket, 1)
    /\ result = None
    /\ predictions = << >>
    /\ metrics = EmptyDict
    /\ runs = << >>
    /\ checkpoints = << >>
    /\ bulk = None
    /\ retrieval_calls = << >>
    /\ classifier_answer = None
    /\ next_uuid = 2
    /\ trace = << >>

\* predict_priority(title, description, requester_info) is called for the
\* ticket: it returns its dict or raises
PredictPriority ==
    /\ pc = "recommend"
    /\ LET out == predict_priority(ticket.words, ticket.requester_info)
       IN  IF out.raised
           THEN pc' = "predict_priority_raised" /\ result' = result
           ELSE pc' = "predict_priority_returned" /\ result' = out.value
    /\ trace' = Append(trace, "predict_priority")
    /\ UNCHANGED <<runs, checkpoints, bulk,
                   metrics, retrieval_calls, initialized, langgraph_available, app,
                   state_by_ref, ticket, state, predictions,
                   classifier_answer, next_uuid>>

PriorityNext ==
    \/ Prioritize
    \/ PredictPriority

PrioritySpec == PriorityInit /\ [][PriorityNext]_vars

(***************************************************************************)
(* The AgentPerformanceTracker on its own: predictions and feedback logged *)
(* in any order through log_agent_prediction and log_feedback              *)
(***************************************************************************)
TrackerInit ==
    /\ Init
    /\ langgraph_available
    /\ ~state_by_ref

\* performance_tracker.log_agent_prediction is called; when formatting the
\* confidence raises, the record is already in the log
LogAgentPrediction(agent, ticket_id, predicted, confidence) ==
    /\ pc = "idle"
    /\ Len(trace) < MaxCalls
    /\ predictions' = log_agent_prediction(predictions, agent, ticket_id,
                                           predicted, confidence).predictions
    /\ trace' = Append(trace, "log_agent_prediction")
    /\ UNCHANGED <<runs, checkpoints, bulk,
                   metrics, retrieval_calls, initialized, langgraph_available, app,
                   state_by_ref, pc, ticket, state, result,
                   classifier_answer, next_uuid>>

\* WorkflowManager.log_feedback, which calls log_agent_feedback
LogAgentFeedback(ticket_id, agent, actual) ==
    /\ pc = "idle"
    /\ Len(trace) < MaxCalls
    /\ LET out == log_agent_feedback(predictions, metrics, ticket_id, agent,
                                     actual)
       IN  /\ predictions' = out.predictions
           /\ metrics' = out.metrics
    /\ trace' = Append(trace, "log_agent_feedback")
    /\ UNCHANGED <<runs, checkpoints, bulk, retrieval_calls, initialized,
                   langgraph_available, app,
                   state_by_ref, pc, ticket, state, result, classifier_answer,
                   next_uuid>>

TrackerNext ==
    \/ \E agent \in TrackerAgents, ticket_id \in TrackerTicketIds,
          predicted \in TrackerPredicted, confidence \in TrackerConfidences :
            LogAgentPrediction(agent, ticket_id, predicted, confidence)
    \/ \E ticket_id \in TrackerTicketIds, agent \in TrackerAgents,
          actual \in TrackerActuals :
            LogAgentFeedback(ticket_id, agent, actual)

TrackerSpec == TrackerInit /\ [][TrackerNext]_vars

(***************************************************************************)
(* The Solution stage on the state a successful Classification stage left: *)
(* the run from recommend to the response                                  *)
(***************************************************************************)
\* answers of the classifier the Solution stage is run after
SolutionClassifierDicts ==
    {[category |-> c, confidence |-> 90, reasoning |-> <<"model reasoning">>] :
        c \in {"Hardware Failures", "Email Issues", "General Support"}}

\* the state after the classify node merged its answer for the ticket
AfterClassify(tk, d) ==
    LET initial_state == InitialState(tk, 1)
        out == _classify_node(initial_state, [kind |-> "return", value |-> d],
                              << >>)
    IN  [state |-> ApplyUpdate(InPlace(initial_state, out.writes), out.ret),
         predictions |-> out.predictions]

SolutionInit ==
    /\ initialized = TRUE
    /\ langgraph_available = TRUE
    /\ app = TRUE
    /\ state_by_ref \in BOOLEAN
    /\ pc = "recommend"
    /\ ticket \in Tickets
    /\ \E d \in SolutionClassifierDicts :
        /\ classifier_answer = [kind |-> "return", value |-> d]
        /\ state = AfterClassify(ticket, d).state
        /\ predictions = AfterClassify(ticket, d).predictions
    /\ result = None
    /\ metrics = EmptyDict
    /\ runs = << >>
    /\ checkpoints = << >>
    /\ bulk = None
    /\ retrieval_calls = << >>
    /\ next_uuid = 2
    /\ trace = <<"analyze_ticket", "classify">>

SolutionNext ==
    \/ Recommend
    \/ QAReview
    \/ Respond

SolutionSpec == SolutionInit /\ [][SolutionNext]_vars

(***************************************************************************)
(* One graph run, from the classify node to END, on tickets that differ in *)
(* their length and their requester                                        *)
(***************************************************************************)
GraphTickets ==
    {[words |-> {"printer"}, length |-> n, requester_info |-> rq] :
        n \in TicketLengths, rq \in RequesterInfos}

GraphInit ==
    /\ initialized = TRUE
    /\ langgraph_available = TRUE
    /\ app = TRUE
    /\ state_by_ref \in BOOLEAN
    /\ pc = "classify"
    /\ ticket \in GraphTickets
    /\ state = InitialState(ticket, 1)
    /\ result = None
    /\ predictions = << >>
    /\ metrics = EmptyDict
    /\ runs = << >>
    /\ checkpoints = << >>
    /\ bulk = None
    /\ retrieval_calls = << >>
    /\ classifier_answer = None
    /\ next_uuid = 2
    /\ trace = <<"analyze_ticket">>

GraphNext ==
    \/ Classify
    \/ Prioritize
    \/ Recommend
    \/ QAReview

GraphSpec == GraphInit /\ [][GraphNext]_vars

(***************************************************************************)
(* One call of analyze_ticket whose capabilities may never answer: the     *)
(* node awaits classify_text or get_recommendations without a timeout, so  *)
(* an unanswered call leaves the coroutine suspended.  The event loop runs *)
(* every step that is ready (weak fairness); nothing resumes a suspended   *)
(* await.                                                                  *)
(***************************************************************************)
\* `await self.model_service.classify_text(...)` never completes
ClassifierNeverAnswers ==
    /\ pc = "classify"
    /\ pc' = "awaiting_classify_text"
    /\ UNCHANGED <<runs, checkpoints, bulk,
                   metrics, retrieval_calls, initialized,
                   langgraph_available, app, state_by_ref, ticket, state,
                   result, predictions, classifier_answer, next_uuid, trace>>

\* `await self.knowledge_service.get_recommendations(...)` never completes
RetrievalNeverAnswers ==
    /\ pc = "recommend"
    /\ pc' = "awaiting_get_recommendations"
    /\ retrieval_calls' = Append(retrieval_calls, "get_recommendations")
    /\ UNCHANGED <<runs, checkpoints, bulk,
                   metrics, initialized,
                   langgraph_available, app, state_by_ref, ticket, state,
                   result, predictions, classifier_answer, next_uuid, trace>>

LiveNext ==
    \/ Classify
    \/ ClassifierNeverAnswers
    \/ Prioritize
    \/ Recommend
    \/ RetrievalNeverAnswers
    \/ QAReview
    \/ Respond
    \/ Fallback

LiveSpec == GraphInit /\ [][LiveNext]_vars /\ WF_vars(LiveNext)

(***************************************************************************)
(* analyze_ticket as one function of its ticket, the ids it draws and the  *)
(* answers of the capabilities                                             *)
(***************************************************************************)
\* the classify node and its conditional edge, from the initial state
ClassifyStep(st, cls, preds) ==
    LET c == _classify_node(st, cls, preds)
    IN  [route |-> should_skip_priority(
                        ApplyUpdate(InPlace(st, c.writes), c.ret)),
         predictions |-> c.predictions]

\* the prioritize node, when the edge leads to it
PrioritizeStep(r) ==
    IF r.route.next = "prioritize"
    THEN LET p == _prioritize_node(r.route.state, r.predictions)
         IN  [state |-> ApplyUpdate(r.route.state, p.ret),
              predictions |-> p.predictions]
    ELSE [state |-> r.route.state, predictions |-> r.predictions]

\* the recommend node
RecommendStep(r, first, broader) ==
    [state |-> ApplyUpdate(r.state, _recommend_node(r.state, first, broader)),
     predictions |-> r.predictions]

\* the qa_reviewer node and its conditional edge to END
QAReviewStep(r) ==
    LET q == _qa_review_node(r.state)
    IN  [state |-> qa_routing(ApplyUpdate(InPlace(r.state, q.writes),
                                          q.ret)).state,
         predictions |-> r.predictions]

\* app.ainvoke(initial_state, config): the final state of the graph run and
\* the tracker's log after it
ainvoke(tk, ticket_id, cls, first, broader, preds) ==
    QAReviewStep(
        RecommendStep(
            PrioritizeStep(
                ClassifyStep(InitialState(tk, ticket_id), cls, preds)),
            first, broader))

\* analyze_ticket after ainvoke returned run: the formatted result, or the
\* fallback when the formatter raised
AfterAinvoke(run, tk, fallback_id, first, ks) ==
    LET formatted == format_complete_response(BuildResult(run.state))
    IN  IF formatted.raised
        THEN [out |-> _fallback_analysis(tk, ks, fallback_id),
              predictions |-> run.predictions, uuids |-> 2,
              calls |-> Append(RecommendCalls(first), "get_recommendations")]
        ELSE [out |-> formatted, predictions |-> run.predictions,
              uuids |-> 1, calls |-> RecommendCalls(first)]

\* analyze_ticket: the fallback without a usable graph, else the graph run
analyze_ticket(graph, tk, ticket_id, fallback_id, cls, first, broader, ks, preds) ==
    IF ~graph
    THEN [out |-> _fallback_analysis(tk, ks, ticket_id), predictions |-> preds,
          uuids |-> 1, calls |-> <<"get_recommendations">>]
    ELSE AfterAinvoke(ainvoke(tk, ticket_id, cls, first, broader, preds),
                      tk, fallback_id, first, ks)

(***************************************************************************)
(* Several analyze_ticket calls in flight on one WorkflowManager.  The     *)
(* coroutines interleave at their awaits: a node, the response and the     *)
(* fallback are one step each.  The calls share the tracker, the uuid      *)
(* source and the MemorySaver, which keeps the state of a graph run under  *)
(* the run's thread_id.                                                    *)
(***************************************************************************)
Runs == {1, 2}

ConcurrentTickets ==
    {[words |-> {"printer"}, length |-> 99, requester_info |-> None],
     [words |-> {"payroll"}, length |-> 100,
      requester_info |-> [department |-> "Finance"]]}

ConcurrentClassifierOutcomes ==
    {[kind |-> "raise", error |-> "classifier unavailable"],
     [kind |-> "return",
      value |-> [category |-> "Hardware Failures", confidence |-> 96,
                 reasoning |-> <<"model reasoning">>]]}

ConcurrentRetrievalOutcomes ==
    {[kind |-> "list", items |-> << >>],
     [kind |-> "list",
      items |-> <<[solution_id |-> "doc-1", title |-> "Reset the mail profile",
                   similarity_score |-> 80, source |-> "knowledge_base"]>>]}

\* a call not made yet
IdleRun ==
    [pc |-> "idle", ticket |-> None, thread_id |-> 0, fallback_id |-> 0,
     cls |-> None, first |-> None, broader |-> None, ks |-> None,
     result |-> None]

ConcurrentInit ==
    /\ initialized = TRUE
    /\ langgraph_available = TRUE
    /\ app = TRUE
    /\ state_by_ref \in BOOLEAN
    /\ pc = "idle"
    /\ ticket = None
    /\ state = None
    /\ result = None
    /\ predictions = << >>
    /\ metrics = EmptyDict
    /\ runs = [r \in Runs |-> IdleRun]
    /\ checkpoints = << >>
    /\ bulk = None
    /\ retrieval_calls = << >>
    /\ classifier_answer = None
    /\ next_uuid = 1
    /\ trace = << >>

\* config = {"configurable": {"thread_id": ticket_id}}
ThreadId(ticket_id) == ticket_id

\* ainvoke starts on the thread: the input is the state of a new thread and
\* an update to the state a thread already has
StartThread(saved, thread_id, initial_state) ==
    IF thread_id \in DOMAIN saved
    THEN [t \in DOMAIN saved |->
            IF t = thread_id THEN ApplyUpdate(saved[t], initial_state)
            ELSE saved[t]]
    ELSE [t \in DOMAIN saved \cup {thread_id} |->
            IF t = thread_id THEN initial_state ELSE saved[t]]

\* the run's node wrote the state of its thread
SaveThread(saved, thread_id, st) ==
    [t \in DOMAIN saved |-> IF t = thread_id THEN st ELSE saved[t]]

\* caller r calls analyze_ticket: ticket_id is drawn and the graph run starts
RunAnalyzeTicket(r) ==
    /\ runs[r].pc = "idle"
    /\ \E tk \in ConcurrentTickets :
        /\ runs' = [runs EXCEPT ![r].pc = "classify", ![r].ticket = tk,
                                ![r].thread_id = ThreadId(next_uuid)]
        /\ checkpoints' = StartThread(checkpoints, ThreadId(next_uuid),
                                      InitialState(tk, next_uuid))
    /\ next_uuid' = next_uuid + 1
    /\ UNCHANGED <<bulk, metrics, retrieval_calls, initialized,
                   langgraph_available, app, state_by_ref, pc, ticket, state,
                   result, predictions, classifier_answer, trace>>

RunClassify(r) ==
    /\ runs[r].pc = "classify"
    /\ \E cls \in ConcurrentClassifierOutcomes :
        LET st == checkpoints[runs[r].thread_id]
            out == _classify_node(st, cls, predictions)
            route == should_skip_priority(
                        ApplyUpdate(InPlace(st, out.writes), out.ret))
        IN  /\ checkpoints' = SaveThread(checkpoints, runs[r].thread_id,
                                         route.state)
            /\ runs' = [runs EXCEPT ![r].pc = route.next, ![r].cls = cls]
            /\ predictions' = out.predictions
    /\ UNCHANGED <<bulk, metrics, retrieval_calls, initialized,
                   langgraph_available, app, state_by_ref, pc, ticket, state,
                   result, classifier_answer, next_uuid, trace>>

RunPrioritize(r) ==
    /\ runs[r].pc = "prioritize"
    /\ LET st == checkpoints[runs[r].thread_id]
           out == _prioritize_node(st, predictions)
       IN  /\ checkpoints' = SaveThread(checkpoints, runs[r].thread_id,
                                        ApplyUpdate(st, out.ret))
           /\ predictions' = out.predictions
    /\ runs' = [runs EXCEPT ![r].pc = "recommend"]
    /\ UNCHANGED <<bulk, metrics, retrieval_calls, initialized,
                   langgraph_available, app, state_by_ref, pc, ticket, state,
                   result, classifier_answer, next_uuid, trace>>

RunRecommend(r) ==
    /\ runs[r].pc = "recommend"
    /\ \E first \in ConcurrentRetrievalOutcomes,
          broader \in ConcurrentRetrievalOutcomes :
        LET st == checkpoints[runs[r].thread_id]
        IN  /\ checkpoints' =
                    SaveThread(checkpoints, runs[r].thread_id,
                               ApplyUpdate(st, _recommend_node(st, first,
                                                               broader)))
            /\ runs' = [runs EXCEPT ![r].pc = "qa_reviewer",
                                    ![r].first = first,
                                    ![r].broader = broader]
            /\ retrieval_calls' = retrieval_calls \o RecommendCalls(first)
    /\ UNCHANGED <<bulk, metrics, initialized,
                   langgraph_available, app, state_by_ref, pc, ticket, state,
                   result, predictions, classifier_answer, next_uuid, trace>>

RunQAReview(r) ==
    /\ runs[r].pc = "qa_reviewer"
    /\ LET st == checkpoints[runs[r].thread_id]
           out == _qa_review_node(st)
       IN  checkpoints' =
                SaveThread(checkpoints, runs[r].thread_id,
                           qa_routing(ApplyUpdate(InPlace(st, out.writes),
                                                  out.ret)).state)
    /\ runs' = [runs EXCEPT ![r].pc = "respond"]
    /\ UNCHANGED <<bulk, metrics, retrieval_calls, initialized,
                   langgraph_available, app, state_by_ref, pc, ticket, state,
                   result, predictions, classifier_answer, next_uuid, trace>>

RunRespond(r) ==
    /\ runs[r].pc = "respond"
    /\ LET formatted == format_complete_response(
                            BuildResult(checkpoints[runs[r].thread_id]))
       IN  runs' = IF formatted.raised
                   THEN [runs EXCEPT ![r].pc = "fallback"]
                   ELSE [runs EXCEPT ![r].pc = "returned",
                                     ![r].result = formatted.value]
    /\ UNCHANGED <<checkpoints, bulk, metrics, retrieval_calls, initialized,
                   langgraph_available, app, state_by_ref, pc, ticket, state,
                   result, predictions, classifier_answer, next_uuid, trace>>

RunFallback(r) ==
    /\ runs[r].pc = "fallback"
    /\ \E ks \in ConcurrentRetrievalOutcomes :
        LET out == _fallback_analysis(runs[r].ticket, ks, next_uuid)
        IN  runs' = IF out.raised
                    THEN [runs EXCEPT ![r].pc = "raised", ![r].ks = ks,
                                      ![r].fallback_id = next_uuid]
                    ELSE [runs EXCEPT ![r].pc = "returned", ![r].ks = ks,
                                      ![r].fallback_id = next_uuid,
                                      ![r].result = out.value]
    /\ retrieval_calls' = Append(retrieval_calls, "get_recommendations")
    /\ next_uuid' = next_uuid + 1
    /\ UNCHANGED <<checkpoints, bulk, metrics, initialized,
                   langgraph_available, app, state_by_ref, pc, ticket, state,
                   result, predictions, classifier_answer, trace>>

ConcurrentNext ==
    \E r \in Runs :
        \/ RunAnalyzeTicket(r)
        \/ RunClassify(r)
        \/ RunPrioritize(r)
        \/ RunRecommend(r)
        \/ RunQAReview(r)
        \/ RunRespond(r)
        \/ RunFallback(r)

ConcurrentSpec == ConcurrentInit /\ [][ConcurrentNext]_vars

(***************************************************************************)
(* process_bulk_tickets: the quick path for batches of at most ten         *)
(* tickets, analyze_ticket per ticket for larger ones                      *)
(***************************************************************************)
SmallBatchLimit == 10

MaxBatch == 11

MaxOdd == 1

\* the subcategory mapping of classify_ticket
QuickSubcategory(category, tl) ==
    CASE category = "Email Issues" ->
            IF Has(tl, {"iphone", "ios", "android", "mobile", "phone",
                        "tablet"})
            THEN "Mobile Email Sync"
            ELSE IF Has(tl, {"outlook", "client", "application"}) THEN "Outlook"
            ELSE IF Has(tl, {"smtp", "send", "receive", "imap", "pop", "sync"})
            THEN "SMTP/IMAP"
            ELSE IF Has(tl, {"calendar", "meeting", "appointment"})
            THEN "Calendar"
            ELSE "Email General"
      [] category = "Network Issues" ->
            IF Has(tl, {"wifi", "wireless"}) THEN "WiFi"
            ELSE IF Has(tl, {"vpn", "remote"}) THEN "VPN"
            ELSE IF Has(tl, {"internet", "web"}) THEN "Internet"
            ELSE IF Has(tl, {"lan", "ethernet", "cable"}) THEN "LAN"
            ELSE "Connectivity"
      [] category = "Hardware Issues" ->
            IF Has(tl, {"desktop", "pc", "computer"}) THEN "Desktop"
            ELSE IF Has(tl, {"laptop", "notebook"}) THEN "Laptop"
            ELSE IF Has(tl, {"printer", "print"}) THEN "Printer"
            ELSE IF Has(tl, {"mobile", "phone", "iphone", "android"})
            THEN "Mobile Device"
            ELSE IF Has(tl, {"mouse", "keyboard", "monitor", "peripheral"})
            THEN "Peripherals"
            ELSE "Hardware General"
      [] category = "Software Issues" ->
            IF Has(tl, {"install", "installation"}) THEN "Installation"
            ELSE IF Has(tl, {"update", "upgrade", "patch"}) THEN "Update"
            ELSE IF Has(tl, {"error", "crash", "exception"})
            THEN "Application Error"
            ELSE IF Has(tl, {"windows", "linux", "macos", "os"})
            THEN "OS Problem"
            ELSE "Software General"
      [] category \in {"Access & Security Issues", "Account Access"} ->
            IF Has(tl, {"login", "sign in", "logon"}) THEN "Login"
            ELSE IF Has(tl, {"password", "reset", "forgot"}) THEN "Password"
            ELSE IF Has(tl, {"account", "user", "access"}) THEN "Account Access"
            ELSE IF Has(tl, {"permission", "denied", "unauthorized"})
            THEN "File Permissions"
            ELSE "Access General"
      [] category = "General Support" ->
            IF Has(tl, {"how to", "how do", "tutorial", "guide"}) THEN "How-To"
            ELSE IF Has(tl, {"request", "need", "want"}) THEN "Request"
            ELSE "Other"
      [] OTHER -> "Other"

\* the words of the text in some order: the keywords classify_ticket lists
\* in the reasoning it writes itself (every word of the text occurs in the
\* prompt, which quotes the text)
RECURSIVE WordList(_)
WordList(ws) ==
    IF ws = {} THEN << >>
    ELSE LET w == CHOOSE x \in ws : TRUE
         IN  <<w>> \o WordList(ws \ {w})

\* the except branch of classify_ticket
QuickClassifyError(e) ==
    [category |-> "General Support", subcategory |-> "Needs Review",
     confidence |-> ErrorConfidence, reasoning |-> <<"Error: ", e>>]

\* classify_ticket(title, description) with the classifier answering cls
classify_ticket(tl, cls) ==
    IF cls.kind = "raise" THEN QuickClassifyError(cls.error)
    ELSE IF IsNone(cls.value)
    THEN QuickClassifyError("'NoneType' object has no attribute 'get'")
    ELSE
    LET category == Get(cls.value, "category", "General Support")
        subcategory == QuickSubcategory(category, tl)
        confidence == Get(cls.value, "confidence", DefaultClsConfidence)
    IN  IF confidence = NotANumber
        THEN QuickClassifyError("could not convert string to float")
        ELSE [category |-> category, subcategory |-> subcategory,
              confidence |-> confidence,
              reasoning |->
                Get(cls.value, "reasoning",
                    <<"Classified as ", category, "/", subcategory,
                      " based on keywords: ">> \o WordList(tl))]

\* the items of a batch: tickets as dicts, and an item that is a string,
\* which _to_plain hands back as it is
PlainTicket == [shape |-> "dict", words |-> {"request"}, length |-> 100,
                requester_info |-> None]

OddItems ==
    {[shape |-> "dict", words |-> {"payroll"}, length |-> 100,
      requester_info |-> [department |-> "Finance"]],
     [shape |-> "dict", words |-> {"request"}, length |-> 100,
      requester_info |-> [department |-> NonTextDepartment]],
     [shape |-> "text"]}

\* batches of at most MaxBatch items of which at most MaxOdd are not the
\* plain ticket
Batches ==
    {[i \in 1..n |-> IF i \in DOMAIN odd THEN odd[i] ELSE PlainTicket] :
        n \in 0..MaxBatch,
        odd \in UNION {[P -> OddItems] :
                        P \in {Q \in SUBSET (1..MaxBatch) :
                                    Cardinality(Q) <= MaxOdd}}}

\* the answers the capabilities give during one batch
BulkClassifierOutcomes ==
    {[kind |-> "raise", error |-> "classifier unavailable"],
     [kind |-> "return",
      value |-> [category |-> "General Support", confidence |-> 90,
                 reasoning |-> <<"model reasoning">>]]}

BulkRetrievalOutcomes ==
    {[kind |-> "raise", error |-> "retrieval unavailable"],
     [kind |-> "list",
      items |-> <<[solution_id |-> "doc-1", title |-> "Reset the mail profile",
                   similarity_score |-> 80, source |-> "knowledge_base"]>>]}

\* the arguments analyze_ticket gets from the item's dict
TicketOf(item) ==
    [words |-> item.words, length |-> item.length,
     requester_info |-> item.requester_info]

\* a small batch whose failing tickets leave no entry
small_batch_iteration_SkipsFailed(results, item, cls) ==
    IF item.shape # "dict"
    THEN results
    ELSE
    LET classification == classify_ticket(item.words, cls)
        priority == predict_priority(item.words, item.requester_info)
    IN  IF priority.raised
        THEN results
        ELSE Append(results,
                    [classification |-> classification,
                     priority |-> priority.value,
                     solution |->
                        [solution |-> "[Solution recommendation here]"]])

\* one iteration of the loop over a batch of at most ten tickets: results
\* after it
small_batch_iteration(results, item, cls) ==
    IF item.shape # "dict"
    THEN Append(results, [error |-> "'str' object has no attribute 'get'"])
    ELSE
    LET classification == classify_ticket(item.words, cls)
        priority == predict_priority(item.words, item.requester_info)
    IN  IF priority.raised
        THEN Append(results, [error |-> priority.error])
        ELSE Append(results,
                    [classification |-> classification,
                     priority |-> priority.value,
                     solution |->
                        [solution |-> "[Solution recommendation here]"]])

\* the result of the analyze_ticket call, tagged with batch_index and
\* task_id, is appended
LargeBatchEntry(results, call, i, task_id) ==
    [results |->
        Append(results,
               [k \in DOMAIN call.out.value \cup {"batch_index", "task_id"} |->
                    CASE k = "batch_index" -> i
                      [] k = "task_id" -> task_id
                      [] OTHER -> call.out.value[k]]),
     predictions |-> call.predictions, uuids |-> call.uuids,
     calls |-> call.calls]

\* one iteration of the loop over a larger batch: results after it, and
\* what the analyze_ticket call did to the manager
large_batch_iteration(results, item, i, task_id, graph, env, uuid, preds) ==
    IF item.shape # "dict"
    THEN [results |-> Append(results,
                             [batch_index |-> i, task_id |-> task_id,
                              error |-> "'str' object has no attribute 'get'",
                              status |-> "failed"]),
          predictions |-> preds, uuids |-> 0, calls |-> << >>]
    ELSE LargeBatchEntry(
            results,
            analyze_ticket(graph, TicketOf(item), uuid, uuid + 1, env.cls,
                           env.first, env.broader, env.ks, preds),
            i, task_id)

BulkInit ==
    /\ initialized = TRUE
    /\ langgraph_available \in BOOLEAN
    /\ app = langgraph_available
    /\ state_by_ref \in BOOLEAN
    /\ pc = "idle"
    /\ ticket = None
    /\ state = None
    /\ result = None
    /\ predictions = << >>
    /\ metrics = EmptyDict
    /\ runs = << >>
    /\ checkpoints = << >>
    /\ \E tickets \in Batches, cls \in BulkClassifierOutcomes,
          ks \in BulkRetrievalOutcomes :
        bulk = [pc |-> "loop", tickets |-> tickets, task_id |-> "bulk_1",
                i |-> 0, results |-> << >>,
                env |-> [cls |-> cls, first |-> ks, broader |-> ks,
                         ks |-> ks]]
    /\ retrieval_calls = << >>
    /\ classifier_answer = None
    /\ next_uuid = 1
    /\ trace = << >>

\* one iteration for a batch of at most ten tickets
BulkSmallIteration ==
    /\ bulk.pc = "loop"
    /\ Len(bulk.tickets) <= SmallBatchLimit
    /\ bulk.i < Len(bulk.tickets)
    /\ bulk' = [bulk EXCEPT
                    !.i = @ + 1,
                    !.results = small_batch_iteration(
                                    @, bulk.tickets[bulk.i + 1], bulk.env.cls)]
    /\ UNCHANGED <<runs, checkpoints, metrics, retrieval_calls, initialized,
                   langgraph_available, app, state_by_ref, pc, ticket, state,
                   result, predictions, classifier_answer, next_uuid, trace>>

\* one iteration for a larger batch
BulkLargeIteration ==
    /\ bulk.pc = "loop"
    /\ Len(bulk.tickets) > SmallBatchLimit
    /\ bulk.i < Len(bulk.tickets)
    /\ LET out == large_batch_iteration(
                    bulk.results, bulk.tickets[bulk.i + 1], bulk.i,
                    bulk.task_id, initialized /\ langgraph_available /\ app,
                    bulk.env, next_uuid, predictions)
       IN  /\ bulk' = [bulk EXCEPT !.i = @ + 1, !.results = out.results]
           /\ predictions' = out.predictions
           /\ next_uuid' = next_uuid + out.uuids
           /\ retrieval_calls' = retrieval_calls \o out.calls
    /\ UNCHANGED <<runs, checkpoints, metrics, initialized,
                   langgraph_available, app, state_by_ref, pc, ticket, state,
                   result, classifier_answer, trace>>

\* the loop is over: process_bulk_tickets returns results
BulkReturn ==
    /\ bulk.pc = "loop"
    /\ bulk.i = Len(bulk.tickets)
    /\ bulk' = [bulk EXCEPT !.pc = "returned"]
    /\ UNCHANGED <<runs, checkpoints, metrics, retrieval_calls, initialized,
                   langgraph_available, app, state_by_ref, pc, ticket, state,
                   result, predictions, classifier_answer, next_uuid, trace>>

BulkNext ==
    \/ BulkSmallIteration
    \/ BulkLargeIteration
    \/ BulkReturn

BulkSpec == BulkInit /\ [][BulkNext]_vars

(***************************************************************************)
(* Properties                                                              *)
(***************************************************************************)
\* the operation was executed during the call
Did(op) == \E i \in 1..Len(trace) : trace[i] = op

\* how many times the operation was executed during the call
Count(op) == Cardinality({i \in 1..Len(trace) : trace[i] = op})

Returned == pc = "returned"

\* the returned result holds a value other than None under the key
Populated(k) == k \in DOMAIN result /\ ~IsNone(result[k])

\* the skip-priority condition on the run's classification and ticket
SkipCondition ==
    /\ state.classification.confidence > SkipConfidence
    /\ ticket.length < SimpleLengthLimit

\* C1: every result analyze_ticket returns, from the graph run, from the
\* fallback and from the fallback's error path, carries a status that is
\* 'completed' or 'needs_review'.
C1_TerminalStatus ==
    Returned =>
        /\ "status" \in DOMAIN result
        /\ result.status \in {"completed", "needs_review"}

\* C2: once the qa_reviewer stage has run, a quality_score below 0.75 gives a
\* result with status 'needs_review', needs_human_review set, and populated
\* draft_analysis and review_url; a quality_score of at least 0.75 gives
\* status 'completed' with neither draft_analysis nor review_url.
C2_HitlGate ==
    (Returned /\ Did("qa_reviewer")) =>
        IF state.qa_review.quality_score < QaThreshold
        THEN /\ Get(result, "status", "") = "needs_review"
             /\ state.needs_human_review
             /\ Populated("draft_analysis")
             /\ Populated("review_url")
        ELSE /\ Get(result, "status", "") = "completed"
             /\ "draft_analysis" \notin DOMAIN result
             /\ "review_url" \notin DOMAIN result

\* C3: once a run is past the branch after classify, prioritize has run
\* exactly once when the skip condition (confidence > 0.95 and
\* ticket_length < 100) is false and not at all when it is true.
C3_PrioritizeOnceOrSkipped ==
    Did("recommend") =>
        Count("prioritize") = IF SkipCondition THEN 0 ELSE 1

\* C4: a run whose graph ran to its end with confidence > 0.95 and
\* ticket_length < 100 returns a result whose priority_prediction is unset
\* and whose processing_steps contain 'skipped_priority_due_to_confidence'.
C4_SkipBranchResult ==
    (Returned /\ Did("qa_reviewer") /\ SkipCondition) =>
        /\ ~Populated("priority_prediction")
        /\ "processing_steps" \in DOMAIN result.analysis_metadata
        /\ \E i \in 1..Len(result.analysis_metadata.processing_steps) :
              result.analysis_metadata.processing_steps[i]
                = "skipped_priority_due_to_confidence"

\* C5: every returned result holds a classification, a qa_review, a
\* non-empty recommended_solutions and, unless prioritize was skipped, a
\* priority_prediction.
C5_CompleteResult ==
    Returned =>
        /\ Populated("classification")
        /\ Populated("qa_review")
        /\ "recommended_solutions" \in DOMAIN result
        /\ Len(result.recommended_solutions) >= 1
        /\ (Populated("priority_prediction")
            \/ (Did("recommend") /\ ~Did("prioritize")))

\* C6: analyze_ticket never raises to its caller, whatever the classifier
\* and the retrieval capability answer at any stage and in the fallback.
C6_NeverRaises == pc # "raised"

\* C6 witness: the call returned although retrieval failed inside the
\* fallback too, so the fallback's except branch built the result
C6_Witness ==
    /\ Returned
    /\ Did("_fallback_analysis")
    /\ "error" \in DOMAIN result.analysis_metadata

\* C7 as stated: after the recommend stage has run, recommended_solutions
\* has length >= 1 for every retrieval outcome, retrieval failing included.
C7_SolutionsNeverEmpty ==
    Did("recommend") => Len(state.recommended_solutions) >= 1

\* the stage tagged the run with the step
Tagged(step) ==
    \E i \in 1..Len(state.processing_steps) : state.processing_steps[i] = step

\* C7 amended: after the recommend stage has run, recommended_solutions has
\* length >= 1 unless the stage took its error path (tag
\* 'recommendation_error'), where it is the empty list.
C7_SolutionsEmptyOnlyOnError ==
    Did("recommend") =>
        IF Tagged("recommendation_error")
        THEN Len(state.recommended_solutions) = 0
        ELSE Len(state.recommended_solutions) >= 1

\* C7 witness: both searches returned nothing and the stage answered with
\* the static runbook
C7_Witness ==
    /\ Did("recommend")
    /\ Tagged("solution_recommendation_completed")
    /\ Len(state.recommended_solutions) = 1
    /\ state.recommended_solutions[1].solution_id = "generic_1"

\* a classification dict with a non-empty subcategory
HasSubcategory(c) == "subcategory" \in DOMAIN c /\ c.subcategory # ""

\* C8: every classification the pipeline produces - by the classify stage,
\* on its success and error paths, and in the results of the fallback -
\* has a non-empty subcategory.
C8_SubcategoryNeverEmpty ==
    /\ Did("classify") => HasSubcategory(state.classification)
    /\ Returned => HasSubcategory(result.classification)

\* C9: when the fallback produced the result, it ran exactly once, no graph
\* stage ran after it, and the result holds a classification, a priority
\* prediction, solutions and qa_review.status = 'fallback'.
C9_FallbackOnceAndComplete ==
    (Returned /\ Did("_fallback_analysis")) =>
        /\ Count("_fallback_analysis") = 1
        /\ Count("analyze_ticket") = 1
        /\ trace[Len(trace)] = "_fallback_analysis"
        /\ Populated("classification")
        /\ Populated("priority_prediction")
        /\ "recommended_solutions" \in DOMAIN result
        /\ "qa_review" \in DOMAIN result
        /\ result.qa_review.status = "fallback"

\* C10: when classify_text raises in the classify stage, the stage's
\* classification is General Support / Needs Review / 0.5 with the error
\* text as reasoning, nothing is raised, and the run is at the next stage.
C10_ClassifierFailureDegrades ==
    [][(pc = "classify" /\ trace' # trace /\ classifier_answer'.kind = "raise")
        => /\ state'.classification
                = [category |-> "General Support",
                   subcategory |-> "Needs Review",
                   confidence |-> 50,
                   reasoning |-> <<"Error: ", classifier_answer'.error>>]
           /\ pc' = "prioritize"]_vars

\* C10 witness: the classifier raised and the run stands at prioritize
C10_Witness ==
    /\ pc = "prioritize"
    /\ classifier_answer.kind = "raise"
    /\ Tagged("classification_error")

\* C11: the quality gate's quality_score is 0.3 for a classification
\* confidence above 0.7, plus 0.3 for a present priority prediction with
\* confidence above 0.7, plus 0.4 with at least one solution and 0.2 with
\* none; it lies within [0, 1]; qa_review.status is 'approved' exactly when
\* the score is at least 0.75 and 'needs_revision' otherwise.
C11_QualityScore ==
    Did("qa_reviewer") =>
        LET qa == state.qa_review
            cls == IF state.classification.confidence > 70 THEN 30 ELSE 0
            pri == IF IsNone(state.priority_prediction) THEN 0
                   ELSE IF state.priority_prediction.confidence > 70 THEN 30
                   ELSE 0
            sol == IF Len(state.recommended_solutions) >= 1 THEN 40 ELSE 20
        IN  /\ qa.quality_score = cls + pri + sol
            /\ qa.quality_score >= 0 /\ qa.quality_score <= 100
            /\ qa.status = IF qa.quality_score >= 75 THEN "approved"
                           ELSE "needs_revision"

\* C11 witness: the gate scored a run with a failed classifier, a priority
\* prediction and no solution: 0 + 0 + partial credit
C11_Witness ==
    /\ Did("qa_reviewer")
    /\ Did("prioritize")
    /\ Tagged("classification_error")
    /\ Len(state.recommended_solutions) = 0
    /\ state.qa_review.quality_score = 20
    /\ state.qa_review.status = "needs_revision"

\* the ticket's text holds a keyword of the stage's rule
CriticalText ==
    Has(ticket.words, {"down", "outage", "not reachable", "cannot connect",
                       "security breach", "data loss", "ransomware"})

HighText ==
    Has(ticket.words, {"payroll", "finance", "vip", "executive", "ceo",
                       "director"})

MediumText ==
    Has(ticket.words, {"slow", "performance", "minor", "workaround",
                       "intermittent"})

\* the requester's department as given, "" when there is none
TicketDepartment ==
    IF IsNone(ticket.requester_info) THEN ""
    ELSE Get(ticket.requester_info, "department", "")

\* the pair the four ordered rules give for the ticket
RulePair ==
    IF CriticalText THEN <<"Critical", 2>>
    ELSE IF HighText \/ Lower(TicketDepartment) \in {"finance", "executive"}
    THEN <<"High", 8>>
    ELSE IF MediumText THEN <<"Medium", 24>>
    ELSE <<"Low", 72>>

\* the pair the Priority stage answered
StagePair ==
    <<state.priority_prediction.priority,
      state.priority_prediction.estimated_resolution_hours>>

C13_CriticalEscalation ==
    CriticalText =>
        /\ Did("prioritize") => state.priority_prediction.priority = "Critical"
        /\ pc = "predict_priority_returned" => result.priority = "Critical"

\* C14: after the Priority stage, a text with a security, breach or
\* compliance term has priority High or Critical, and a requester from HR
\* or Legal never has priority Low.
C14_OverlayFloors ==
    Did("prioritize") =>
        /\ Has(ticket.words, {"security", "breach", "compliance"}) =>
                state.priority_prediction.priority \in {"High", "Critical"}
        /\ Lower(TicketDepartment) \in {"hr", "legal"} =>
                state.priority_prediction.priority # "Low"

\* a is an initial segment of b
IsPrefix(a, b) == Len(a) <= Len(b) /\ SubSeq(b, 1, Len(a)) = a

\* C15: across a pipeline run agent_metrics and processing_steps only grow:
\* every stage transition and routing decision, error paths included,
\* leaves the value before the step as a prefix of the value after it.
C15_AppendOnly ==
    [][(~IsNone(state) /\ ~IsNone(state')) =>
            /\ IsPrefix(state.agent_metrics, state'.agent_metrics)
            /\ IsPrefix(state.processing_steps, state'.processing_steps)]_vars

\* C15 witness: a run through two error paths whose four tags are all kept
C15_Witness ==
    /\ Did("qa_reviewer")
    /\ Len(state.processing_steps) = 4
    /\ state.processing_steps[1] = "classification_error"
    /\ state.processing_steps[3] = "recommendation_error"
    /\ state.processing_steps[4] = "qa_review_completed"
    /\ Len(state.agent_metrics) = 2

\* C16: the ticket_id of the returned result is the ticket_id under which
\* the run's predictions were logged in the tracker, on every path, the
\* fallback after a started graph run included.
C16_TicketIdStable ==
    Returned =>
        \A i \in 1..Len(predictions) :
            predictions[i].ticket_id = result.ticket_id

\* the records of the log for the pair
Matching(ticket_id, agent) ==
    {i \in 1..Len(predictions) :
        /\ predictions[i].ticket_id = ticket_id
        /\ predictions[i].agent = agent}

\* the records of the log for the pair that have no feedback yet
Unfed(ticket_id, agent) ==
    {i \in Matching(ticket_id, agent) : "actual" \notin DOMAIN predictions[i]}

\* C17: log_agent_feedback updates the most recent prediction of the pair
\* that has no feedback yet, and no other record; the updated record gets
\* correct = TRUE exactly when predicted and actual are equal ignoring case.
C17_MostRecentUnfed ==
    [][\A t \in TrackerTicketIds, a \in TrackerAgents, x \in TrackerActuals :
        LogAgentFeedback(t, a, x) =>
            IF Unfed(t, a) = {} THEN predictions' = predictions
            ELSE LET i == CHOOSE j \in Unfed(t, a) :
                                \A k \in Unfed(t, a) : k <= j
                 IN  /\ \A k \in 1..Len(predictions) \ {i} :
                            predictions'[k] = predictions[k]
                     /\ "actual" \in DOMAIN predictions'[i]
                     /\ predictions'[i].actual = x
                     /\ predictions'[i].correct
                            = (Lower(predictions[i].predicted) = Lower(x))]_vars

\* C18: a second log_agent_feedback with the same ticket_id, agent and
\* actual, when exactly one prediction exists for the pair, leaves the
\* agent's total, correct and accuracy as they were after the first.
C18_FeedbackIdempotent ==
    [][\A t \in TrackerTicketIds, a \in TrackerAgents, x \in TrackerActuals :
        (/\ LogAgentFeedback(t, a, x)
         /\ Cardinality(Matching(t, a)) = 1
         /\ \A i \in Matching(t, a) :
                /\ "actual" \in DOMAIN predictions[i]
                /\ predictions[i].actual = x)
        => /\ metrics'[a].total = metrics[a].total
           /\ metrics'[a].correct = metrics[a].correct
           /\ metrics'[a].accuracy = metrics[a].accuracy]_vars

\* the fields of a prediction record written by log_agent_prediction
Core(p) ==
    [agent |-> p.agent, ticket_id |-> p.ticket_id, predicted |-> p.predicted,
     confidence |-> p.confidence]

\* C19: log_agent_prediction adds exactly one record at the end of the log
\* and changes no other; log_agent_feedback keeps the number and order of
\* the records and each record's agent, ticket_id, predicted and
\* confidence; feedback for a pair without prediction changes neither the
\* log nor the aggregates.
C19_LogAppendOnly ==
    [][/\ \A a \in TrackerAgents, t \in TrackerTicketIds,
             p \in TrackerPredicted, c \in TrackerConfidences :
            LogAgentPrediction(a, t, p, c) =>
                /\ Len(predictions') = Len(predictions) + 1
                /\ SubSeq(predictions', 1, Len(predictions)) = predictions
                /\ predictions'[Len(predictions')]
                        = [agent |-> a, ticket_id |-> t, predicted |-> p,
                           confidence |-> c]
                /\ metrics' = metrics
       /\ \A t \in TrackerTicketIds, a \in TrackerAgents,
             x \in TrackerActuals :
            LogAgentFeedback(t, a, x) =>
                /\ Len(predictions') = Len(predictions)
                /\ \A i \in 1..Len(predictions) :
                        Core(predictions'[i]) = Core(predictions[i])
                /\ Matching(t, a) = {} =>
                        predictions' = predictions /\ metrics' = metrics]_vars

\* C19 witness: feedback was attached to the first of two records of the
\* same agent for different tickets, and the second record follows it still
C19_Witness ==
    /\ Len(predictions) = 2
    /\ trace[Len(trace)] = "log_agent_feedback"
    /\ "actual" \in DOMAIN predictions[1]
    /\ "actual" \notin DOMAIN predictions[2]
    /\ predictions[1].agent = predictions[2].agent
    /\ predictions[1].ticket_id # predictions[2].ticket_id

\* the number of records logged by the agent under the run's ticket_id
Logged(agent) ==
    Cardinality({i \in 1..Len(predictions) :
                    /\ predictions[i].agent = agent
                    /\ predictions[i].ticket_id = state.ticket_id})

\* C20: a run in which no stage failed and prioritize was not skipped has
\* logged exactly one record each for classifier, priority_predictor and
\* qa_reviewer under the run's ticket_id, the qa_reviewer one carrying
\* quality_score as confidence, and none for the solution stage.
C20_OneRecordPerStage ==
    (/\ Did("qa_reviewer")
     /\ state.processing_steps
            = <<"classification_completed", "priority_prediction_completed",
                "solution_recommendation_completed", "qa_review_completed">>)
    => /\ Logged("classifier") = 1
       /\ Logged("priority_predictor") = 1
       /\ Logged("qa_reviewer") = 1
       /\ \A i \in 1..Len(predictions) :
            predictions[i].agent = "qa_reviewer" =>
                predictions[i].confidence = state.qa_review.quality_score
       /\ Logged("solution_recommender") = 0
       /\ Len(predictions) = 3

\* a retrieval answer that is the empty list
NoHits == [kind |-> "list", items |-> << >>]

\* the Solution stage runs with get_recommendations answering first and
\* search, when called, answering broader
RecommendWith(first, broader) ==
    /\ pc = "recommend"
    /\ retrieval_calls' = retrieval_calls \o RecommendCalls(first)
    /\ state' = ApplyUpdate(state, _recommend_node(state, first, broader))

\* C24: with retrieval always returning [] and the classifier answering
\* 'Hardware Failures' with confidence 0.9, for every text the Solution
\* stage's recommended_solutions is non-empty, marked 'heuristic', and is
\* the hardware runbook, not that of another domain.
C24_HardwareRunbook ==
    [][(/\ RecommendWith(NoHits, NoHits)
        /\ state.classification.category = "Hardware Failures"
        /\ state.classification.confidence = 90)
       => /\ Len(state'.recommended_solutions) >= 1
          /\ \A i \in 1..Len(state'.recommended_solutions) :
                /\ state'.recommended_solutions[i].source = "heuristic"
                /\ state'.recommended_solutions[i].title
                        \in {"Hardware Troubleshooting",
                             "Printer Troubleshooting"}]_vars

\* the stage answered with the static runbook entry
RunbookUsed(solutions) ==
    \E i \in 1..Len(solutions) :
        /\ solutions[i].source = "heuristic"
        /\ solutions[i].similarity_score = HeuristicSimilarity

\* the first search returned nothing: None or the empty list
ReturnedNothing(first) ==
    first.kind = "none" \/ (first.kind = "list" /\ Len(first.items) = 0)

\* C26: in the Solution stage the widened search is issued only when the
\* first search returned nothing, the static runbook is used only when both
\* searches returned nothing, and results of the first search are used as
\* they are, with no runbook entry added.
C26_WideningOrder ==
    [][\A first \in RetrievalOutcomes(Recommendations),
          broader \in RetrievalOutcomes(SearchHits) :
        RecommendWith(first, broader) =>
            /\ retrieval_calls'[Len(retrieval_calls')] = "search"
                    => ReturnedNothing(first)
            /\ RunbookUsed(state'.recommended_solutions)
                    => ReturnedNothing(first) /\ broader = NoHits
            /\ (first.kind = "list" /\ Len(first.items) > 0)
                    => /\ state'.recommended_solutions = first.items
                       /\ ~RunbookUsed(state'.recommended_solutions)
                       /\ retrieval_calls' = <<"get_recommendations">>]_vars

\* C26 witness: the first search returned nothing, the widened search was
\* issued and its hit became the recommendation, without runbook entry
C26_Witness ==
    /\ pc = "qa_reviewer"
    /\ retrieval_calls = <<"get_recommendations", "search">>
    /\ Len(state.recommended_solutions) = 1
    /\ state.recommended_solutions[1].source = "kaggle"
    /\ ~RunbookUsed(state.recommended_solutions)

\* the stages of the graph
Stages == {"classify", "prioritize", "recommend", "qa_reviewer"}

IsStage(op) == op \in Stages

\* the stages the run executed, in the order of their execution
StageTrace == SelectSeq(trace, IsStage)

\* the two complete stage sequences: with and without Prioritize
LegalOrders ==
    {<<"classify", "prioritize", "recommend", "qa_reviewer">>,
     <<"classify", "recommend", "qa_reviewer">>}

\* the graph run reached END: ainvoke returned
GraphEnded == pc = "respond" \/ Did("qa_reviewer")

\* C25: the stages of a run execute in the order Classify, optionally
\* Prioritize, Recommend, QAReview, each at most once; a run that reached
\* the terminal state executed Classify, Recommend and QAReview exactly
\* once, and no stage executes after the terminal state.
C25_StageOrder ==
    /\ \E o \in LegalOrders : IsPrefix(StageTrace, o)
    /\ GraphEnded => StageTrace \in LegalOrders
    /\ GraphEnded => pc \notin Stages

\* C25 witness: a run that skipped Prioritize reached the terminal state
C25_Witness ==
    /\ pc = "respond"
    /\ StageTrace = <<"classify", "recommend", "qa_reviewer">>

\* the step is the execution of the stage
StepOf(op) == pc = op /\ trace' = Append(trace, op)

\* the output fields of the four stages
StageOutputs ==
    {"classification", "priority_prediction", "recommended_solutions",
     "qa_review"}

\* the step appends the tag, and only it, to processing_steps and leaves the
\* output fields of the other stages as they were
DegradesLocally(own, tag) ==
    /\ state'.processing_steps = Append(state.processing_steps, tag)
    /\ \A k \in StageOutputs \ {own} : state'[k] = state[k]

\* the classifier's answer makes the body of _classify_node fail
ClassifyFails(cls) ==
    \/ cls.kind = "raise"
    \/ IsNone(cls.value)
    \/ Get(cls.value, "confidence", DefaultClsConfidence) = NotANumber

\* the requester makes the body of _prioritize_node fail
PrioritizeFails ==
    /\ ~IsNone(state.requester_info)
    /\ Get(state.requester_info, "department", "") = NonTextDepartment

\* the answers of the retrieval make the body of _recommend_node fail
RecommendFails(first, broader) ==
    \/ first.kind \in {"raise", "junk"}
    \/ /\ ReturnedNothing(first)
       /\ \/ broader.kind # "list"
          \/ first.kind = "none" /\ Len(broader.items) > 0

\* the state makes the body of _qa_review_node fail
QAReviewFails ==
    \/ Get(state.classification, "confidence", 0) = NotANumber
    \/ /\ ~IsNone(state.priority_prediction)
       /\ Get(state.priority_prediction, "confidence", 0) = NotANumber

\* C27: a stage whose body fails appends its error tag and not its
\* completion tag to processing_steps, writes a well-formed degraded value to
\* its own output field and to no other stage's, and the run goes on to the
\* next stage (after qa_reviewer: to the terminal state).  No reachable state
\* makes the body of qa_reviewer fail; its conjunct is kept for the record.
C27_StageLocalDegradation ==
    [][/\ (StepOf("classify") /\ ClassifyFails(classifier_answer')) =>
            /\ DegradesLocally("classification", "classification_error")
            /\ DOMAIN state'.classification =
                    {"category", "subcategory", "confidence", "reasoning"}
            /\ state'.classification.category = "General Support"
            /\ state'.classification.confidence = ErrorConfidence
            /\ pc' = "prioritize"
       /\ (StepOf("prioritize") /\ PrioritizeFails) =>
            /\ DegradesLocally("priority_prediction", "priority_error")
            /\ state'.priority_prediction.priority = "Medium"
            /\ state'.priority_prediction.estimated_resolution_hours = 24
            /\ state'.priority_prediction.confidence = ErrorConfidence
            /\ pc' = "recommend"
       /\ \A first \in RetrievalOutcomes(Recommendations),
             broader \in RetrievalOutcomes(SearchHits) :
            (RecommendFails(first, broader) /\ RecommendWith(first, broader))
            => /\ DegradesLocally("recommended_solutions",
                                  "recommendation_error")
               /\ state'.recommended_solutions = << >>
               /\ pc' = "qa_reviewer"
       /\ (StepOf("qa_reviewer") /\ QAReviewFails) =>
            /\ DegradesLocally("qa_review", "qa_error")
            /\ state'.qa_review.status = "error"
            /\ state'.qa_review.quality_score = ErrorConfidence
            /\ pc' = "respond"
       /\ (GraphEnded /\ (Tagged("classification_error")
                           \/ Tagged("priority_error")
                           \/ Tagged("recommendation_error")))
            => /\ StageTrace \in LegalOrders
               /\ Tagged("qa_review_completed")]_vars

\* C27 witness: the bodies of classify, prioritize and recommend failed in
\* one run, and the run went through qa_reviewer to the terminal state
C27_Witness ==
    /\ pc = "respond"
    /\ Tagged("classification_error")
    /\ Tagged("priority_error")
    /\ Tagged("recommendation_error")
    /\ ~Tagged("classification_completed")
    /\ ~Tagged("priority_prediction_completed")
    /\ ~Tagged("solution_recommendation_completed")
    /\ Tagged("qa_review_completed")

\* C28: in every graph run the quality gate never approves: the Priority
\* stage reports confidence 0.7, or 0.5 on its error path, or nothing when
\* skipped, none of which exceeds the gate's 0.7 threshold, so quality_score
\* is at most 0.7 and qa_review.status is never 'approved'.
C28_NeverApproved ==
    /\ Did("prioritize") =>
            state.priority_prediction.confidence
                \in {PriorityConfidence, ErrorConfidence}
    /\ Did("qa_reviewer") =>
            /\ \/ IsNone(state.priority_prediction)
               \/ state.priority_prediction.confidence <= ConfidenceThreshold
            /\ state.qa_review.quality_score
                    <= ClassificationWeight + SolutionWeight
            /\ state.qa_review.status # "approved"
            /\ state.status # "completed"

\* C28 witness: classification and solutions earned their shares, priority
\* reported 0.7, and the gate asked for a revision at score 0.7
C28_Witness ==
    /\ Did("qa_reviewer")
    /\ Did("prioritize")
    /\ state.priority_prediction.confidence = PriorityConfidence
    /\ state.qa_review.quality_score = ClassificationWeight + SolutionWeight
    /\ state.qa_review.status = "needs_revision"

C30_SamePriorityAsStage ==
    pc = "predict_priority_returned" =>
        /\ result.priority = state.priority_prediction.priority
        /\ result.estimated_resolution_hours =
                state.priority_prediction.estimated_resolution_hours

\* C22: every pipeline run eventually returns a result, also when the
\* classifier or the retrieval never answers: no run stays forever in the
\* Classify or the Recommend stage.
C22_EventuallyReturns == <>(pc = "returned")

\* what the call of caller r returns and logs when it runs alone, given its
\* ids and the answers the capabilities gave it
Alone(r) ==
    analyze_ticket(TRUE, runs[r].ticket, runs[r].thread_id,
                   runs[r].fallback_id, runs[r].cls, runs[r].first,
                   runs[r].broader, runs[r].ks, << >>)

\* a record of the tracker, without its position in the log
RecordOfRun(p, r) == p.ticket_id = runs[r].thread_id

\* the tracker's records of the call of caller r, in order
RecordsOf(r) ==
    LET Mine(p) == RecordOfRun(p, r) IN SelectSeq(predictions, Mine)

\* C21: with several calls in flight on one WorkflowManager, in every
\* interleaving each call returns the result it returns when it runs alone,
\* and the tracker holds every record every call logged: none lost, none
\* overwritten, none under another call's ticket_id.
C21_RunsIndependent ==
    /\ \A r \in Runs :
            runs[r].pc = "returned" =>
                /\ ~Alone(r).out.raised
                /\ runs[r].result = Alone(r).out.value
                /\ RecordsOf(r) = Alone(r).predictions
    /\ \A i \in 1..Len(predictions) :
            \E r \in Runs : RecordOfRun(predictions[i], r)
    /\ \A r1, r2 \in Runs :
            (r1 # r2 /\ runs[r1].pc # "idle" /\ runs[r2].pc # "idle")
                => runs[r1].thread_id # runs[r2].thread_id
    /\ (\A r \in Runs : runs[r].pc = "returned") =>
            Len(predictions) = Len(RecordsOf(1)) + Len(RecordsOf(2))

\* C21 witness: two calls were in flight together, their nodes interleaved
\* in the tracker's log, and both returned
C21_Witness ==
    /\ \A r \in Runs : runs[r].pc = "returned"
    /\ Len(predictions) = 4
    /\ predictions[1].ticket_id # predictions[2].ticket_id
    /\ predictions[2].ticket_id # predictions[3].ticket_id

\* processing the item of a batch fails: the item is not a dict, or, on the
\* quick path, predict_priority raises on its requester
ItemFails(item, small) ==
    \/ item.shape # "dict"
    \/ small /\ predict_priority(item.words, item.requester_info).raised

\* C23: process_bulk_tickets returns one entry per input ticket; entry i
\* belongs to input ticket i (and says so in batch_index on the large-batch
\* path); a ticket whose processing fails gets an error entry, and the
\* entries of the other tickets are neither dropped nor shifted.
C23_OneEntryPerTicket ==
    (bulk.pc = "returned") =>
        LET small == Len(bulk.tickets) <= SmallBatchLimit
        IN  /\ Len(bulk.results) = Len(bulk.tickets)
            /\ \A i \in 1..Len(bulk.tickets) :
                LET item == bulk.tickets[i]
                    entry == bulk.results[i]
                IN  /\ ItemFails(item, small) <=> "error" \in DOMAIN entry
                    /\ ~small =>
                            /\ entry.batch_index = i - 1
                            /\ entry.task_id = bulk.task_id
                    /\ (small /\ ~ItemFails(item, small)) =>
                            entry.priority =
                                predict_priority(item.words,
                                                 item.requester_info).value

\* C23 witness: a batch on the quick path whose second ticket failed
\* between two tickets that did not
C23_Witness ==
    /\ bulk.pc = "returned"
    /\ Len(bulk.tickets) = 3
    /\ DOMAIN bulk.results[2] = {"error"}
    /\ "priority" \in DOMAIN bulk.results[1]
    /\ "priority" \in DOMAIN bulk.results[3]

====
